---- MODULE Spec2Model ----
(***************************************************************************)
(* HomeCast session layer: the per-device maps of lib/state.js, the buffer *)
(* health tracker (lib/stats.js), the stall detector and recovery          *)
(* orchestrator (lib/recovery.js), the connection health monitor           *)
(* (lib/health.js) and the cast session controller (lib/cast.js), for one  *)
(* device address.  Every map of lib/state.js is keyed by device address   *)
(* and no handler reads another device's entry, so one address is modelled.*)
(* (A pass of checkStreamStalls awaits the recovery it starts before it     *)
(* goes on to the next address; with one address the pass ends there and    *)
(* the recovery runs on beside the later passes.)                           *)
(*                                                                         *)
(* Time is Date.now() in milliseconds, sampled every TickMs.  The stall      *)
(* detector compares timestamps with thresholds inside its poll tick only,  *)
(* and an event between two ticks acts there as the same event at the       *)
(* earlier tick's instant after the tick, or at the later tick's instant    *)
(* before it: its clock is sampled once per poll period.  The health        *)
(* monitor counts whole heartbeat intervals, so its clock is sampled twice  *)
(* per heartbeat interval and a heartbeat can fall between two ticks.  A    *)
(* timer (setInterval, setTimeout) fires at the first sampled instant at or *)
(* after its due time, and the callbacks due at one instant run in any      *)
(* order.  Network callbacks (player.stop, player.load, player.getStatus)   *)
(* arrive after any delay.                                                  *)
(*                                                                         *)
(* The two monitors and the health score share nothing but the session:    *)
(* checkStreamStalls reads activeSessions, streamRecovery and the state    *)
(* machine of the tracker (lastState, lastBufferStart, hasPlayed);         *)
(* checkConnectionHealth reads activeSessions and connectionHealth;        *)
(* getBufferHealthStats reads the tracker's totals.  A specification       *)
(* follows the parts named in `scope`; a record or field outside them is   *)
(* written by the handlers below exactly where the operators Follows say   *)
(* so, and nowhere read.                                                   *)
(***************************************************************************)
EXTENDS Integers, Sequences, FiniteSets, Bags, TLC

\* ---- program constants (milliseconds unless said otherwise) ----
MAX_RECOVERY_ATTEMPTS == 3
STALL_TIMEOUT == 15000
HEARTBEAT_INTERVAL == 5000
MAX_MISSED_HEARTBEATS == 3
RECONNECT_DELAY == 10000
MAX_RECONNECT_ATTEMPTS == 3
\* setInterval(checkStreamStalls, 10000)
STALL_POLL_INTERVAL == 10000
\* idle path: timeSinceLastRequest > 15000 && timeSinceLastRecovery > 5000
IDLE_REQUEST_WINDOW == 15000
IDLE_RECOVERY_COOLDOWN == 5000
\* reset path: timeSinceLastRequest < 10000, timeSinceLastRecovery > 30000
RESET_ACTIVITY_WINDOW == 10000
RESET_COOLDOWN == 30000
\* await new Promise(resolve => setTimeout(resolve, 2000))
SETTLE_DELAY == 2000
\* degraded threshold: health.missedHeartbeats >= 2
DEGRADED_MISSED == 2
\* playlist cache: 4 seconds for live streams, 60 seconds for VOD
CACHE_TTL_LIVE == 4000
CACHE_TTL_VOD == 60000
\* JavaScript null in a timestamp field; it is falsy, as is 0, and the clock
\* never reads 0
NULL == 0

\* ---- bounds of the model ----
\* the clock runs for MaxTicks periods of the stall poll timer
MaxTicks == 8
\* cast clients connected or still playing at one time
MaxClients == 3
\* lines of a manifest text
MaxLines == 3
\* the proxy's clock moves on MaxSamples times
MaxSamples == 6
\* buffering events counted for one tracker where the totals are followed
MaxEvents == 3
\* cache hits counted for the device
MaxHits == 2

PlayerStates == {"PLAYING", "BUFFERING", "PAUSED", "IDLE"}
\* no entry for the device in a map
NoEntry == [absent |-> TRUE]

VARIABLES
    scope,                \* the parts of the program the specification follows
    now,                  \* Date.now()
    nextStallCheck,       \* due time of the checkStreamStalls interval, NULL: not started
    nextHealthCheck,      \* due time of the checkConnectionHealth interval, NULL: not started
    pendingCast,          \* a cast request's load callback is outstanding
    activeSessions,       \* activeSessions.has(ip)
    bufferHealthTracking, \* bufferHealthTracking.get(ip)
    streamRecovery,       \* streamRecovery.get(ip)
    recoveries,           \* bag of the attemptStreamRecovery invocations in progress
    broadcasts,           \* streamRecovery events broadcast for the record in the map
    connectionHealth,     \* connectionHealth.get(ip)
    reconnectTimers,      \* due times of the setTimeout(attemptReconnect) timers
    probes,               \* bag of the getStatus callbacks outstanding
    announced,            \* state of the last connectionHealth broadcast
    streamStats,          \* streamStats.has(ip)
    playbackTracking,     \* playbackTracking.has(ip)
    deviceToClientMap,    \* deviceToClientMap.has(ip)
    castCall,             \* the last POST /api/cast: its load timeout and its responses
    stopCall,             \* the last POST /api/stop: its stop callback and its responses
    clients,              \* bag of the cast clients connected or still playing
    playlistCache,        \* playlistCache.get(url) of one manifest URL
    manifestCall,         \* the GET /proxy request for the manifest in progress, or the last
    rewriting,            \* a manifest text, a referer, and the text rewritten from them
    samples,              \* how often the proxy's clock has moved on
    segmentCall,          \* the GET /proxy request for a segment or a file in progress, or the last
    proxyCall,            \* a GET /proxy request of the device from its arrival to its answer
    cacheHits,            \* streamStats.get(ip).cacheHits
    nextSweep,            \* when the interval timer of the cache sweep fires next
    bufferingSince,       \* history: when the status reports turned to BUFFERING
    startedSinceRequest   \* history: a recovery was started after the last GET /proxy

stallVars == <<nextStallCheck, streamRecovery, recoveries, broadcasts>>
healthVars == <<nextHealthCheck, connectionHealth, reconnectTimers, probes, announced>>
sessionVars == <<pendingCast, activeSessions>>
\* the maps and handles the session controller alone reads; they are followed
\* where the scope has "session" and stay as they start elsewhere
controllerVars ==
    <<streamStats, playbackTracking, deviceToClientMap, castCall, stopCall, clients>>
\* The history variables are fields of no record of the program: they keep what
\* the handlers below saw, for properties that speak of it.  bufferingSince is
\* the instant of the status report that turned the reported state to BUFFERING
\* (NULL while the last report is not BUFFERING); the tracker keeps that instant
\* in lastBufferStart only once playback has started.
observed == <<bufferingSince, startedSinceRequest>>
\* the playlist cache and the requests of routes/proxy.js; they are followed
\* where the scope has "proxy" and stay as they start elsewhere
proxyVars ==
    <<playlistCache, manifestCall, rewriting, samples, segmentCall, proxyCall, cacheHits,
      nextSweep>>
vars == <<scope, now, sessionVars, controllerVars, proxyVars, bufferHealthTracking,
          stallVars, healthVars, observed>>

Follows(part) == part \in scope

\* the sampling period of the clock
TickMs ==
    IF Follows("stall") \/ Follows("score") THEN STALL_POLL_INTERVAL
    ELSE HEARTBEAT_INTERVAL \div 2
MaxTime == TickMs + MaxTicks * STALL_POLL_INTERVAL

\* ---- lib/stats.js: buffer health tracker ----
\* totalBufferingTime is kept in milliseconds (the code divides by 1000)
NewTracking ==
    [bufferingEvents |-> 0, totalBufferingTime |-> 0, lastBufferStart |-> NULL,
     lastState |-> "null", sessionStartTime |-> NULL, hasPlayed |-> FALSE]

StartClock(tracking, playerState, t) ==
    IF playerState = "PLAYING" /\ ~tracking.hasPlayed
    THEN [tracking EXCEPT !.hasPlayed = TRUE, !.sessionStartTime = t]
    ELSE tracking

\* TrackTransition without the wait for the first PLAYING report
TrackTransitionBeforePlay(tracking, playerState, t) ==
    IF playerState = "BUFFERING" /\ tracking.lastState # "BUFFERING"
    THEN [tracking EXCEPT !.bufferingEvents = @ + 1, !.lastBufferStart = t]
    ELSE IF tracking.lastState = "BUFFERING" /\ playerState # "BUFFERING"
            /\ tracking.lastBufferStart # NULL
    THEN [tracking EXCEPT !.totalBufferingTime = @ + (t - tracking.lastBufferStart),
                          !.lastBufferStart = NULL]
    ELSE tracking

\* TrackTransition with every BUFFERING report counted as an event
TrackTransitionEveryReport(tracking, playerState, t) ==
    IF ~tracking.hasPlayed THEN tracking
    ELSE IF playerState = "BUFFERING"
    THEN [tracking EXCEPT !.bufferingEvents = @ + 1, !.lastBufferStart = t]
    ELSE IF tracking.lastState = "BUFFERING" /\ playerState # "BUFFERING"
            /\ tracking.lastBufferStart # NULL
    THEN [tracking EXCEPT !.totalBufferingTime = @ + (t - tracking.lastBufferStart),
                          !.lastBufferStart = NULL]
    ELSE tracking

\* TrackTransition with the start marker kept when BUFFERING is left
TrackTransitionKeepsMarker(tracking, playerState, t) ==
    IF ~tracking.hasPlayed THEN tracking
    ELSE IF playerState = "BUFFERING" /\ tracking.lastState # "BUFFERING"
    THEN [tracking EXCEPT !.bufferingEvents = @ + 1, !.lastBufferStart = t]
    ELSE IF tracking.lastState = "BUFFERING" /\ playerState # "BUFFERING"
            /\ tracking.lastBufferStart # NULL
    THEN [tracking EXCEPT !.totalBufferingTime = @ + (t - tracking.lastBufferStart)]
    ELSE tracking

TrackTransition(tracking, playerState, t) ==
    IF ~tracking.hasPlayed THEN tracking
    ELSE IF playerState = "BUFFERING" /\ tracking.lastState # "BUFFERING"
    THEN [tracking EXCEPT !.bufferingEvents = @ + 1, !.lastBufferStart = t]
    ELSE IF tracking.lastState = "BUFFERING" /\ playerState # "BUFFERING"
            /\ tracking.lastBufferStart # NULL
    THEN [tracking EXCEPT !.totalBufferingTime = @ + (t - tracking.lastBufferStart),
                          !.lastBufferStart = NULL]
    ELSE tracking

\* the tracker without the totals getBufferHealthStats alone reads
WithoutTotals(tracking) ==
    [tracking EXCEPT !.bufferingEvents = 0, !.totalBufferingTime = 0,
                     !.sessionStartTime = NULL]

trackBufferHealth(entry, playerState, t) ==
    LET tracking == IF entry = NoEntry THEN NewTracking ELSE entry
    IN  [TrackTransition(StartClock(tracking, playerState, t), playerState, t)
            EXCEPT !.lastState = playerState]

\* Math.round(x / y) for y > 0: the nearest integer, a half rounded up
RoundDiv(x, y) == (2 * x + y) \div (2 * y)

\* currentBufferingTime of getBufferHealthStats, in milliseconds
currentBufferingTime(tracking, t) ==
    tracking.totalBufferingTime
        + IF tracking.lastBufferStart # NULL THEN t - tracking.lastBufferStart ELSE 0

\* getBufferHealthStats at the instant t; totalBufferingTime in whole seconds
getBufferHealthStats(entry, t) ==
    IF entry = NoEntry \/ ~entry.hasPlayed
    THEN [healthScore |-> 100, bufferingEvents |-> 0, totalBufferingTime |-> 0]
    ELSE LET totalSessionTime == t - entry.sessionStartTime
             playingTime == totalSessionTime - currentBufferingTime(entry, t)
             healthScore == IF totalSessionTime > 0
                            THEN RoundDiv(playingTime * 100, totalSessionTime)
                            ELSE 100
             atMost100 == IF healthScore < 100 THEN healthScore ELSE 100
         IN  [healthScore |-> IF atMost100 > 0 THEN atMost100 ELSE 0,
              bufferingEvents |-> entry.bufferingEvents,
              totalBufferingTime |-> RoundDiv(currentBufferingTime(entry, t), 1000)]

\* ---- lib/recovery.js: stall detector and recovery orchestrator ----
initializeStreamRecovery(t) ==
    [lastProxyRequest |-> t, stallDetected |-> FALSE,
     recoveryAttempts |-> 0, lastRecoveryAttempt |-> NULL]

\* trackStreamActivity with the stalled flag left as it is
trackStreamActivityKeepsFlag(recovery, t) ==
    IF recovery = NoEntry THEN recovery
    ELSE [recovery EXCEPT !.lastProxyRequest = t]

trackStreamActivity(recovery, t) ==
    IF recovery = NoEntry THEN recovery
    ELSE [recovery EXCEPT !.lastProxyRequest = t, !.stallDetected = FALSE]

\* if (bufferHealth && bufferHealth.lastState === 'BUFFERING' && bufferHealth.lastBufferStart)
BufferingBranch(bufferHealth) ==
    /\ bufferHealth # NoEntry
    /\ bufferHealth.lastState = "BUFFERING"
    /\ bufferHealth.lastBufferStart # NULL

\* else if (bufferHealth && bufferHealth.lastState === 'IDLE')
IdleBranch(bufferHealth) ==
    /\ ~BufferingBranch(bufferHealth)
    /\ bufferHealth # NoEntry
    /\ bufferHealth.lastState = "IDLE"

\* MayRecover with the attempt bound off by one
MayRecoverInclusive(recovery) ==
    ~recovery.stallDetected /\ recovery.recoveryAttempts <= MAX_RECOVERY_ATTEMPTS

\* !recovery.stallDetected && recovery.recoveryAttempts < MAX_RECOVERY_ATTEMPTS
MayRecover(recovery) ==
    ~recovery.stallDetected /\ recovery.recoveryAttempts < MAX_RECOVERY_ATTEMPTS

\* BufferingStalled without the stallDetected guard
BufferingStalledUnguarded(recovery, bufferHealth, t) ==
    /\ BufferingBranch(bufferHealth)
    /\ t - bufferHealth.lastBufferStart > STALL_TIMEOUT
    /\ t - recovery.lastProxyRequest > STALL_TIMEOUT
    /\ recovery.recoveryAttempts < MAX_RECOVERY_ATTEMPTS

BufferingStalled(recovery, bufferHealth, t) ==
    /\ BufferingBranch(bufferHealth)
    /\ t - bufferHealth.lastBufferStart > STALL_TIMEOUT
    /\ t - recovery.lastProxyRequest > STALL_TIMEOUT
    /\ MayRecover(recovery)

IdleStalled(recovery, bufferHealth, session, t) ==
    /\ IdleBranch(bufferHealth)
    /\ session
    /\ t - recovery.lastProxyRequest > IDLE_REQUEST_WINDOW
    /\ (recovery.lastRecoveryAttempt = NULL
        \/ t - recovery.lastRecoveryAttempt > IDLE_RECOVERY_COOLDOWN)
    /\ MayRecover(recovery)

ResetDue(recovery, bufferHealth, t) ==
    /\ ~BufferingBranch(bufferHealth)
    /\ ~IdleBranch(bufferHealth)
    /\ recovery.stallDetected
    /\ bufferHealth # NoEntry
    /\ bufferHealth.lastState = "PLAYING"
    /\ t - recovery.lastProxyRequest < RESET_ACTIVITY_WINDOW
    /\ (IF recovery.lastRecoveryAttempt # NULL
        THEN t - recovery.lastRecoveryAttempt ELSE 0) > RESET_COOLDOWN

\* MarkStalled without the assignment of lastRecoveryAttempt
MarkStalledUntimed(recovery, t) ==
    [recovery EXCEPT !.stallDetected = TRUE, !.recoveryAttempts = @ + 1]

MarkStalled(recovery, t) ==
    [recovery EXCEPT !.stallDetected = TRUE,
                     !.recoveryAttempts = @ + 1,
                     !.lastRecoveryAttempt = t]

ResetRecovery(recovery) ==
    [recovery EXCEPT !.recoveryAttempts = 0, !.stallDetected = FALSE]

\* broadcast({type: 'streamRecovery', status}), counted per status
NoBroadcasts == [attempting |-> 0, success |-> 0, failed |-> 0, giveup |-> 0]
Broadcast(log, status) == [log EXCEPT ![status] = @ + 1]

\* one more, and one fewer, of the invocations in progress
Plus(running, r) == running (+) SetToBag({r})
Minus(running, r) == running (-) SetToBag({r})

\* An invocation of attemptStreamRecovery closes over the record it was started
\* for.  While that record is the map's entry (live) it reads and writes the
\* entry.  Once streamRecovery.delete or streamRecovery.set has taken the record
\* out of the map, nothing else reaches the record: the invocation still runs
\* its steps on the old player, and what it reads, writes and broadcasts
\* concerns no record of the map, so only its position is kept.
Orphaned(running) ==
    IF streamRecovery = NoEntry THEN running
    ELSE LET left == {[r EXCEPT !.live = FALSE] : r \in BagToSet(running)}
         IN  [r \in left |-> CopiesIn(r, running)
                               + CopiesIn([r EXCEPT !.live = TRUE], running)]

\* ---- lib/health.js: connection health monitor ----
initializeConnectionHealth(t) ==
    [lastHeartbeat |-> t, missedHeartbeats |-> 0,
     connectionState |-> "healthy", reconnectAttempts |-> 0, lastActivity |-> t]

\* updateHeartbeat without the reset of reconnectAttempts
updateHeartbeatKeepsAttempts(health, t) ==
    IF health = NoEntry THEN health
    ELSE [health EXCEPT !.lastHeartbeat = t, !.lastActivity = t,
                        !.missedHeartbeats = 0, !.connectionState = "healthy"]

updateHeartbeat(health, t) ==
    IF health = NoEntry THEN health
    ELSE LET beat == [health EXCEPT !.lastHeartbeat = t, !.lastActivity = t,
                                    !.missedHeartbeats = 0]
         IN  IF health.connectionState # "healthy"
             THEN [beat EXCEPT !.connectionState = "healthy", !.reconnectAttempts = 0]
             ELSE beat

\* the broadcast of updateHeartbeat: 'Connection restored'
AnnounceBeat(health, last) ==
    IF health # NoEntry /\ health.connectionState # "healthy" THEN "healthy" ELSE last

\* Math.floor(timeSinceLastHeartbeat / HEARTBEAT_INTERVAL)
Missed(elapsed) == elapsed \div HEARTBEAT_INTERVAL

\* TurnsUnhealthy with every state but healthy turned unhealthy
TurnsUnhealthyRepeatedly(health, missed) ==
    /\ missed >= MAX_MISSED_HEARTBEATS
    /\ health.connectionState # "healthy"

\* TurnsUnhealthy without the test of the current state
TurnsUnhealthyAgain(health, missed) == missed >= MAX_MISSED_HEARTBEATS

\* if (health.missedHeartbeats >= MAX_MISSED_HEARTBEATS)
\*     if (health.connectionState !== 'unhealthy' && health.connectionState !== 'reconnecting')
TurnsUnhealthy(health, missed) ==
    /\ missed >= MAX_MISSED_HEARTBEATS
    /\ health.connectionState \notin {"unhealthy", "reconnecting"}

\* TurnsDegraded with the threshold one heartbeat early
TurnsDegradedEarly(health, missed) ==
    /\ missed < MAX_MISSED_HEARTBEATS
    /\ missed >= DEGRADED_MISSED - 1
    /\ health.connectionState = "healthy"

\* else if (health.missedHeartbeats >= 2) if (health.connectionState === 'healthy')
TurnsDegraded(health, missed) ==
    /\ missed < MAX_MISSED_HEARTBEATS
    /\ missed >= DEGRADED_MISSED
    /\ health.connectionState = "healthy"

\* if (health.reconnectAttempts < MAX_RECONNECT_ATTEMPTS) setTimeout(...)
SchedulesReconnect(health) == health.reconnectAttempts < MAX_RECONNECT_ATTEMPTS

\* if (timeSinceLastHeartbeat > HEARTBEAT_INTERVAL) health.missedHeartbeats = ...
Counted(health, t) ==
    IF t - health.lastHeartbeat > HEARTBEAT_INTERVAL
    THEN [health EXCEPT !.missedHeartbeats = Missed(t - health.lastHeartbeat)]
    ELSE health

\* the poll loop enters the unhealthy block, or the degraded block
EntersUnhealthy(health, t) ==
    /\ t - health.lastHeartbeat > HEARTBEAT_INTERVAL
    /\ TurnsUnhealthy(health, Missed(t - health.lastHeartbeat))

EntersDegraded(health, t) ==
    /\ t - health.lastHeartbeat > HEARTBEAT_INTERVAL
    /\ TurnsDegraded(health, Missed(t - health.lastHeartbeat))

\* the record after one pass of the poll loop over a device with a session
CheckedHealth(health, t) ==
    IF EntersUnhealthy(health, t)
    THEN [Counted(health, t) EXCEPT !.connectionState = "unhealthy"]
    ELSE IF EntersDegraded(health, t)
    THEN [Counted(health, t) EXCEPT !.connectionState = "degraded"]
    ELSE Counted(health, t)

\* if (!health || health.connectionState === 'healthy') return;
ReconnectSkipped(health) == health = NoEntry \/ health.connectionState = "healthy"

\* the health record a probe closed over: its reconnectAttempts are read by the
\* callback, and stay as they were (frozen) once the record has left the map
ReconnectsOf(p) == IF p.live THEN connectionHealth.reconnectAttempts ELSE p.frozen

OrphanedProbes(running) ==
    IF connectionHealth = NoEntry THEN running
    ELSE LET frozen == [live |-> FALSE, frozen |-> connectionHealth.reconnectAttempts]
             left == {p \in BagToSet(running) : ~p.live}
                        \cup {frozen : p \in {q \in BagToSet(running) : q.live}}
         IN  [p \in left |-> CopiesIn(p, running)
                               + IF p = frozen
                                 THEN CopiesIn([live |-> TRUE, frozen |-> 0], running)
                                 ELSE 0]

\* ---- timers ----
TimerDue ==
    \/ nextStallCheck # NULL /\ nextStallCheck <= now
    \/ nextHealthCheck # NULL /\ nextHealthCheck <= now
    \/ \E due \in reconnectTimers : due <= now
    \/ \E r \in BagToSet(recoveries) : r.pc = "settle" /\ r.due <= now

\* the clock moves on once every timer due at this instant has fired
Advance ==
    /\ ~TimerDue
    /\ now + TickMs <= MaxTime
    /\ now' = now + TickMs
    /\ UNCHANGED <<proxyVars, controllerVars, scope, sessionVars, bufferHealthTracking, stallVars, healthVars, observed>>

\* ---- lib/cast.js: the cast clients the controller has created ----
\* role: "pending" while its cast request awaits the load callback, "session"
\* while it is the record of activeSessions, "old" afterwards; loaded: its
\* player has loaded media; stop: who has called player.stop on it ("cast":
\* castToDevice for a replaced session, "user": stopCasting); closed:
\* client.close has been called on it
NewClient == [role |-> "pending", loaded |-> FALSE, stop |-> "none", closed |-> FALSE]

RECURSIVE CopiesOf(_, _)
CopiesOf(S, bag) ==
    IF S = {} THEN 0
    ELSE LET c == CHOOSE x \in S : TRUE
         IN  CopiesIn(c, bag) + CopiesOf(S \ {c}, bag)

\* the bag with F applied to each of its clients
Each(F(_), bag) ==
    LET image == {F(c) : c \in BagToSet(bag)}
    IN  [d \in image |-> CopiesOf({c \in BagToSet(bag) : F(c) = d}, bag)]

\* a client no map refers to, closed, whose player was stopped or never loaded
Gone(c) == c.role = "old" /\ c.closed /\ (c.stop # "none" \/ ~c.loaded)

Kept(bag) == [c \in {d \in BagToSet(bag) : ~Gone(d)} |-> CopiesIn(c, bag)]

\* Replaced without the call of player.stop
ReplacedUnstopped(c) ==
    IF c.role = "session" THEN [c EXCEPT !.role = "old"] ELSE c

\* castToDevice: existingSession.player.stop(...); activeSessions.delete(ip)
Replaced(c) ==
    IF c.role = "session"
    THEN [c EXCEPT !.role = "old", !.stop = IF @ = "none" THEN "cast" ELSE @]
    ELSE c

\* activeSessions.delete(ip) without a stop or a close of the handles
Unregistered(c) == IF c.role = "session" THEN [c EXCEPT !.role = "old"] ELSE c

\* player.on('close'): the player of the session has ended
Ended(c) ==
    IF c.role = "session" THEN [c EXCEPT !.role = "old", !.loaded = FALSE] ELSE c

\* client.close() on the client of the pending cast request
PendingClosed(c) == IF c.role = "pending" THEN [c EXCEPT !.closed = TRUE] ELSE c
PendingDropped(c) ==
    IF c.role = "pending" THEN [c EXCEPT !.role = "old", !.closed = TRUE] ELSE c

\* client.on('error') of the session's client: record deleted, client.close()
Failing(c) ==
    IF c.role = "session" THEN [c EXCEPT !.role = "old", !.closed = TRUE] ELSE c

\* the load callback registers { client, player } of the pending request
Registered(c) ==
    IF c.role = "pending" THEN [c EXCEPT !.role = "session", !.loaded = TRUE] ELSE c

\* stopCasting: player.stop(callback) on the session's player
StopCalled(c) == IF c.role = "session" THEN [c EXCEPT !.stop = "user"] ELSE c

\* the stopCasting callback: client.close() on the client it stopped, and
\* activeSessions.delete(ip) whatever the record is by now
Stopped(c) ==
    IF c.stop = "user" THEN [c EXCEPT !.role = "old", !.closed = TRUE]
    ELSE Unregistered(c)

\* ---- the HTTP responses of a request ----
\* the load timeout of a cast request, and the responses sent on its res
NoCall == [timer |-> "unset", responses |-> << >>]
\* the callback of a stop request, and the responses sent on its res
NoStop == [pending |-> FALSE, responses |-> << >>]

\* if (!res.headersSent) res.status(status).json(...)
Respond(call, status) ==
    IF call.responses # << >> THEN call
    ELSE [call EXCEPT !.responses = Append(@, status)]

\* clearTimeout(loadTimeout)
Cleared(call) == IF call.timer = "armed" THEN [call EXCEPT !.timer = "cleared"] ELSE call

\* ---- lib/cast.js: session controller ----
\* castToDevice up to client.connect: an existing session is stopped and
\* removed from activeSessions, the stream stats, the playback tracking and the
\* client mapping are deleted and the mapping is set for the new request; the
\* records of the other maps stay
CastRequest ==
    /\ ~pendingCast \/ Follows("overlap")
    /\ BagCardinality(clients) < MaxClients
    /\ pendingCast' = TRUE
    /\ activeSessions' = FALSE
    /\ IF Follows("session")
       THEN /\ streamStats' = FALSE
            /\ playbackTracking' = FALSE
            /\ deviceToClientMap' = TRUE
            /\ castCall' = NoCall
            /\ clients' = Plus(Each(Replaced, clients), NewClient)
            /\ UNCHANGED stopCall
       ELSE UNCHANGED controllerVars
    /\ UNCHANGED <<proxyVars, observed, scope, now, bufferHealthTracking, stallVars, healthVars>>

\* the launch callback without error: the load timeout is set, player.load issued
Launched ==
    /\ Follows("session")
    /\ pendingCast
    /\ castCall.timer = "unset"
    /\ castCall' = [castCall EXCEPT !.timer = "armed"]
    /\ UNCHANGED <<proxyVars, streamStats, playbackTracking, deviceToClientMap, stopCall, clients,
                   observed, scope, now, sessionVars, bufferHealthTracking, stallVars,
                   healthVars>>

\* the load timeout fires: 408 with the troubleshooting payload, client.close()
LoadTimeout ==
    /\ Follows("session")
    /\ castCall.timer = "armed"
    /\ castCall' = [Respond(castCall, 408) EXCEPT !.timer = "fired"]
    /\ clients' = Kept(Each(PendingClosed, clients))
    /\ UNCHANGED <<proxyVars, streamStats, playbackTracking, deviceToClientMap, stopCall,
                   observed, scope, now, sessionVars, bufferHealthTracking, stallVars,
                   healthVars>>

\* the load callback without error: the session and its records are registered
LoadSuccess ==
    /\ pendingCast
    /\ Follows("session") => castCall.timer # "unset"
    /\ pendingCast' = FALSE
    /\ activeSessions' = TRUE
    /\ connectionHealth' =
        IF Follows("health") THEN initializeConnectionHealth(now) ELSE NoEntry
    /\ probes' = OrphanedProbes(probes)
    /\ announced' = IF Follows("health") THEN "healthy" ELSE announced
    /\ streamRecovery' =
        IF Follows("stall") THEN initializeStreamRecovery(now) ELSE NoEntry
    /\ recoveries' = Orphaned(recoveries)
    /\ broadcasts' = NoBroadcasts
    /\ startedSinceRequest' = FALSE
    /\ IF Follows("session")
       THEN /\ castCall' = Respond(Cleared(castCall), 200)
            /\ clients' = Each(Registered, clients)
            /\ UNCHANGED <<streamStats, playbackTracking, deviceToClientMap, stopCall>>
       ELSE UNCHANGED controllerVars
    /\ UNCHANGED <<proxyVars, scope, now, bufferHealthTracking, nextStallCheck,
                   nextHealthCheck, reconnectTimers, bufferingSince>>

\* the launch callback or the load callback with an error: 500, client.close(),
\* nothing is registered (where the load timeout is not followed: or the load
\* is never answered)
LoadFailed ==
    /\ pendingCast
    /\ pendingCast' = FALSE
    /\ IF Follows("session")
       THEN /\ castCall' = Respond(Cleared(castCall), 500)
            /\ clients' = Kept(Each(PendingDropped, clients))
            /\ UNCHANGED <<streamStats, playbackTracking, deviceToClientMap, stopCall>>
       ELSE UNCHANGED controllerVars
    /\ UNCHANGED <<proxyVars, observed, scope, now, activeSessions, bufferHealthTracking, stallVars, healthVars>>

\* activeSessions.set(ip, { client, player }) by the load callback of the
\* request of c: c is the record, the client that was the record is let go
Overwritten(c, bag) ==
    Plus(Minus(Each(Unregistered, bag), c), [c EXCEPT !.role = "session", !.loaded = TRUE])

\* the load callback without error of one of several cast requests in
\* progress for the device (their responses and load timeouts are not
\* followed): its session and its records are registered over what is there
LoadSuccessOf(c) ==
    /\ Follows("overlap")
    /\ c.role = "pending"
    /\ ~c.closed
    /\ clients' = Overwritten(c, clients)
    /\ pendingCast' = (\E d \in BagToSet(clients') : d.role = "pending")
    /\ activeSessions' = TRUE
    /\ connectionHealth' =
        IF Follows("health") THEN initializeConnectionHealth(now) ELSE NoEntry
    /\ probes' = OrphanedProbes(probes)
    /\ announced' = IF Follows("health") THEN "healthy" ELSE announced
    /\ streamRecovery' =
        IF Follows("stall") THEN initializeStreamRecovery(now) ELSE NoEntry
    /\ recoveries' = Orphaned(recoveries)
    /\ broadcasts' = NoBroadcasts
    /\ startedSinceRequest' = FALSE
    /\ UNCHANGED <<proxyVars, streamStats, playbackTracking, deviceToClientMap, castCall,
                   stopCall, scope, now, bufferHealthTracking, nextStallCheck,
                   nextHealthCheck, reconnectTimers, bufferingSince>>

\* the launch or load callback with an error of one of several cast requests
\* in progress: client.close(), nothing is registered
LoadFailedOf(c) ==
    /\ Follows("overlap")
    /\ c.role = "pending"
    /\ ~c.closed
    /\ clients' = Kept(Plus(Minus(clients, c), [c EXCEPT !.role = "old", !.closed = TRUE]))
    /\ pendingCast' = (\E d \in BagToSet(clients') : d.role = "pending")
    /\ UNCHANGED <<proxyVars, streamStats, playbackTracking, deviceToClientMap, castCall,
                   stopCall, observed, scope, now, activeSessions, bufferHealthTracking,
                   stallVars, healthVars>>

\* client.on('error') while the cast request is pending: 500, the session, the
\* stats, the tracking and the mapping are deleted, client.close(); the
\* connection is gone and no callback of the request follows
PendingClientError ==
    /\ Follows("session")
    /\ pendingCast
    /\ pendingCast' = FALSE
    /\ activeSessions' = FALSE
    /\ castCall' = Respond(castCall, 500)
    /\ streamStats' = FALSE
    /\ playbackTracking' = FALSE
    /\ deviceToClientMap' = FALSE
    /\ clients' = Kept(Each(PendingDropped, Each(Unregistered, clients)))
    /\ UNCHANGED <<proxyVars, stopCall, observed, scope, now, bufferHealthTracking, stallVars,
                   healthVars>>

\* player.on('status'): updateHeartbeat, then trackBufferHealth; a status with
\* a live seekable range sets the playback tracking
PlayerStatus(playerState) ==
    /\ activeSessions
    /\ IF Follows("score") /\ bufferHealthTracking # NoEntry
       THEN bufferHealthTracking.bufferingEvents < MaxEvents
       ELSE TRUE
    /\ connectionHealth' = updateHeartbeat(connectionHealth, now)
    /\ announced' = AnnounceBeat(connectionHealth, announced)
    /\ bufferHealthTracking' =
        LET tracking == trackBufferHealth(bufferHealthTracking, playerState, now)
        IN  IF Follows("score") THEN tracking
            ELSE IF Follows("stall") THEN WithoutTotals(tracking)
            ELSE NoEntry
    /\ bufferingSince' =
        IF ~(Follows("stall") \/ Follows("score")) \/ playerState # "BUFFERING" THEN NULL
        ELSE IF bufferingSince # NULL THEN bufferingSince
        ELSE now
    /\ playbackTracking' \in
        IF Follows("session") THEN {playbackTracking, TRUE} ELSE {playbackTracking}
    /\ UNCHANGED <<proxyVars, streamStats, deviceToClientMap, castCall, stopCall, clients,
                   scope, now, sessionVars, stallVars, nextHealthCheck, reconnectTimers,
                   probes, startedSinceRequest>>

\* every map entry of the device is deleted (stop callback, player 'close')
ClearDevice ==
    /\ activeSessions' = FALSE
    /\ playbackTracking' = FALSE
    /\ bufferHealthTracking' = NoEntry
    /\ streamRecovery' = NoEntry
    /\ recoveries' = Orphaned(recoveries)
    /\ broadcasts' = NoBroadcasts
    /\ deviceToClientMap' = FALSE
    /\ connectionHealth' = NoEntry
    /\ probes' = OrphanedProbes(probes)
    /\ streamStats' = FALSE
    /\ bufferingSince' = NULL
    /\ startedSinceRequest' = FALSE
    /\ UNCHANGED <<proxyVars, scope, now, pendingCast, nextStallCheck,
                   nextHealthCheck, reconnectTimers, announced>>

\* POST /api/stop with a session, answered at once: stopCasting, the
\* player.stop callback
StopCasting ==
    /\ ~Follows("session")
    /\ activeSessions
    /\ ClearDevice
    /\ UNCHANGED <<castCall, stopCall, clients>>

\* POST /api/stop without a session: 404
StopMissing ==
    /\ Follows("session")
    /\ ~stopCall.pending
    /\ ~activeSessions
    /\ stopCall' = [NoStop EXCEPT !.responses = <<404>>]
    /\ UNCHANGED <<proxyVars, streamStats, playbackTracking, deviceToClientMap, castCall, clients,
                   observed, scope, now, sessionVars, bufferHealthTracking, stallVars,
                   healthVars>>

\* POST /api/stop with a session: stopCasting up to player.stop(callback)
StopSent ==
    /\ Follows("session")
    /\ ~stopCall.pending
    /\ activeSessions
    /\ stopCall' = [NoStop EXCEPT !.pending = TRUE]
    /\ clients' = Each(StopCalled, clients)
    /\ UNCHANGED <<proxyVars, streamStats, playbackTracking, deviceToClientMap, castCall,
                   observed, scope, now, sessionVars, bufferHealthTracking, stallVars,
                   healthVars>>

\* POST /api/stop with a session whose player.stop throws: the catch branch
\* deletes the session, the recovery record, the mapping and the stats; 500
StopThrows ==
    /\ Follows("session")
    /\ ~stopCall.pending
    /\ activeSessions
    /\ stopCall' = [NoStop EXCEPT !.responses = <<500>>]
    /\ activeSessions' = FALSE
    /\ streamRecovery' = NoEntry
    /\ recoveries' = Orphaned(recoveries)
    /\ broadcasts' = NoBroadcasts
    /\ startedSinceRequest' = FALSE
    /\ deviceToClientMap' = FALSE
    /\ streamStats' = FALSE
    /\ clients' = Kept(Each(Unregistered, clients))
    /\ UNCHANGED <<proxyVars, playbackTracking, castCall, bufferingSince, scope, now, pendingCast,
                   bufferHealthTracking, nextStallCheck, healthVars>>

\* the player.stop callback of stopCasting, with or without an error:
\* client.close(), every map entry of the device is deleted, 200
StopCallback ==
    /\ Follows("session")
    /\ stopCall.pending
    /\ ClearDevice
    /\ stopCall' = [pending |-> FALSE, responses |-> Append(stopCall.responses, 200)]
    /\ clients' = Kept(Each(Stopped, clients))
    /\ UNCHANGED castCall

\* the player.stop callback of castToDevice: existingSession.client.close()
OldStopDone(c) ==
    /\ Follows("session")
    /\ c.role = "old"
    /\ c.stop = "cast"
    /\ ~c.closed
    /\ clients' = Kept(Plus(Minus(clients, c), [c EXCEPT !.closed = TRUE]))
    /\ UNCHANGED <<proxyVars, streamStats, playbackTracking, deviceToClientMap, castCall, stopCall,
                   observed, scope, now, sessionVars, bufferHealthTracking, stallVars,
                   healthVars>>

\* player.on('close'): the receiver reports the player closed
PlayerClose ==
    /\ activeSessions
    /\ ClearDevice
    /\ clients' = Kept(Each(Ended, clients))
    /\ UNCHANGED <<castCall, stopCall>>

\* client.on('error'): the session leaves its map, with the stats, the
\* tracking and the client mapping; client.close()
ClientError ==
    /\ activeSessions
    /\ activeSessions' = FALSE
    /\ playbackTracking' = FALSE
    /\ deviceToClientMap' = FALSE
    /\ streamStats' = FALSE
    /\ clients' = Kept(Each(Failing, clients))
    /\ UNCHANGED <<proxyVars, castCall, stopCall, observed, scope, now, pendingCast,
                   bufferHealthTracking, stallVars, healthVars>>

\* player.on('close') of a player that is no longer the session's: the handler
\* deletes the map entries of the device address whatever they are by now
OldPlayerClose(c) ==
    /\ Follows("session")
    /\ c.role = "old"
    /\ c.loaded
    /\ ClearDevice
    /\ clients' = Kept(Plus(Minus(Each(Unregistered, clients), c),
                            [c EXCEPT !.loaded = FALSE]))
    /\ UNCHANGED <<castCall, stopCall>>

\* client.on('error') of a client that is no longer the session's: its request
\* has been answered, the session, the stats, the tracking and the mapping of
\* the device address are deleted whatever they are by now; client.close()
OldClientError(c) ==
    /\ Follows("session")
    /\ c.role = "old"
    /\ ~c.closed
    /\ activeSessions' = FALSE
    /\ playbackTracking' = FALSE
    /\ deviceToClientMap' = FALSE
    /\ streamStats' = FALSE
    /\ clients' = Kept(Plus(Minus(Each(Unregistered, clients), c),
                            [c EXCEPT !.closed = TRUE]))
    /\ UNCHANGED <<proxyVars, castCall, stopCall, observed, scope, now, pendingCast,
                   bufferHealthTracking, stallVars, healthVars>>

\* ---- routes/proxy.js: GET /proxy ----
\* heartbeat: updateHeartbeat found a health record when the request arrived
NoProxyCall == [pc |-> "idle", status |-> 0, heartbeat |-> FALSE]

\* statuses a request that passed the URL check is answered with
ProxyAnswers == {200, 404, 500}

\* updateHeartbeat(deviceIp); trackStreamActivity(deviceIp); the stream stats
\* of the device are created; the URL check follows
ProxyRequest ==
    /\ IF Follows("gate") THEN proxyCall.pc \in {"idle", "done"} ELSE TRUE
    /\ proxyCall' =
        IF Follows("gate")
        THEN [pc |-> "validating", status |-> 0, heartbeat |-> connectionHealth # NoEntry]
        ELSE proxyCall
    /\ connectionHealth' = updateHeartbeat(connectionHealth, now)
    /\ announced' = AnnounceBeat(connectionHealth, announced)
    /\ streamRecovery' = trackStreamActivity(streamRecovery, now)
    /\ startedSinceRequest' = FALSE
    /\ streamStats' = (Follows("session") \/ streamStats)
    /\ UNCHANGED <<playlistCache, manifestCall, rewriting, samples, segmentCall, cacheHits, nextSweep, playbackTracking, deviceToClientMap, castCall, stopCall, clients,
                   scope, now, sessionVars, bufferHealthTracking, nextStallCheck, recoveries,
                   broadcasts, nextHealthCheck, reconnectTimers, probes, bufferingSince>>

\* validateProxyUrl rejects the URL: 403
UrlBlocked ==
    /\ Follows("gate")
    /\ proxyCall.pc = "validating"
    /\ proxyCall' = [proxyCall EXCEPT !.pc = "done", !.status = 403]
    /\ UNCHANGED <<playlistCache, manifestCall, rewriting, samples, segmentCall, cacheHits, nextSweep,
                   controllerVars, scope, now, sessionVars, bufferHealthTracking,
                   stallVars, healthVars, observed>>

\* validateProxyUrl accepts the URL: the fetch from the origin follows
UrlAllowed ==
    /\ Follows("gate")
    /\ proxyCall.pc = "validating"
    /\ proxyCall' = [proxyCall EXCEPT !.pc = "fetching"]
    /\ UNCHANGED <<playlistCache, manifestCall, rewriting, samples, segmentCall, cacheHits, nextSweep,
                   controllerVars, scope, now, sessionVars, bufferHealthTracking,
                   stallVars, healthVars, observed>>

\* the request is answered: with the origin's content, or with an error when
\* the fetch failed
ProxyAnswered(status) ==
    /\ Follows("gate")
    /\ proxyCall.pc = "fetching"
    /\ proxyCall' = [proxyCall EXCEPT !.pc = "done", !.status = status]
    /\ UNCHANGED <<playlistCache, manifestCall, rewriting, samples, segmentCall, cacheHits, nextSweep,
                   controllerVars, scope, now, sessionVars, bufferHealthTracking,
                   stallVars, healthVars, observed>>

\* ---- lib/recovery.js: the poll tick and the recovery sequence ----
\* attemptStreamRecovery up to player.stop: nothing happens without a session
StartRecovery(recovery) ==
    IF ~activeSessions
    THEN UNCHANGED <<recoveries, broadcasts>>
    ELSE /\ recoveries' = Plus(recoveries, [pc |-> "stop", due |-> NULL, live |-> TRUE])
         /\ broadcasts' = Broadcast(broadcasts, "attempting")

checkStreamStalls ==
    /\ nextStallCheck # NULL
    /\ nextStallCheck <= now
    /\ nextStallCheck' = nextStallCheck + STALL_POLL_INTERVAL
    /\ IF streamRecovery = NoEntry
       THEN UNCHANGED <<streamRecovery, recoveries, broadcasts, startedSinceRequest>>
       ELSE IF \/ BufferingStalled(streamRecovery, bufferHealthTracking, now)
               \/ IdleStalled(streamRecovery, bufferHealthTracking, activeSessions, now)
       THEN /\ streamRecovery' = MarkStalled(streamRecovery, now)
            /\ StartRecovery(streamRecovery')
            /\ startedSinceRequest' = TRUE
       ELSE IF ResetDue(streamRecovery, bufferHealthTracking, now)
       THEN /\ streamRecovery' = ResetRecovery(streamRecovery)
            /\ UNCHANGED <<recoveries, broadcasts, startedSinceRequest>>
       ELSE UNCHANGED <<streamRecovery, recoveries, broadcasts, startedSinceRequest>>
    /\ UNCHANGED <<proxyVars, controllerVars, scope, now, sessionVars, bufferHealthTracking, healthVars, bufferingSince>>

\* the player.stop callback, with or without an error: the settle timer starts
StopDone(r) ==
    /\ r.pc = "stop"
    /\ recoveries' = Plus(Minus(recoveries, r),
                          [r EXCEPT !.pc = "settle", !.due = now + SETTLE_DELAY])
    /\ UNCHANGED <<proxyVars, controllerVars, observed, scope, now, sessionVars, bufferHealthTracking, nextStallCheck,
                   streamRecovery, broadcasts, healthVars>>

\* the settle timer fires: player.load is issued
SettleDone(r) ==
    /\ r.pc = "settle"
    /\ r.due <= now
    /\ recoveries' = Plus(Minus(recoveries, r), [r EXCEPT !.pc = "load", !.due = NULL])
    /\ UNCHANGED <<proxyVars, controllerVars, observed, scope, now, sessionVars, bufferHealthTracking, nextStallCheck,
                   streamRecovery, broadcasts, healthVars>>

\* if (recovery.recoveryAttempts >= MAX_RECOVERY_ATTEMPTS) broadcast giveup
GivesUp(attempts) == attempts >= MAX_RECOVERY_ATTEMPTS

\* the load callback with an error
ReloadFailed(r) ==
    /\ r.pc = "load"
    /\ recoveries' = Minus(recoveries, r)
    /\ broadcasts' =
        LET failed == Broadcast(broadcasts, "failed")
        IN  IF ~r.live THEN broadcasts
            ELSE IF GivesUp(streamRecovery.recoveryAttempts)
            THEN Broadcast(failed, "giveup")
            ELSE failed
    /\ UNCHANGED <<proxyVars, controllerVars, observed, scope, now, sessionVars, bufferHealthTracking, nextStallCheck,
                   streamRecovery, healthVars>>

\* the load callback without error
ReloadSucceeded(r) ==
    /\ r.pc = "load"
    /\ recoveries' = Minus(recoveries, r)
    /\ streamRecovery' =
        IF r.live THEN trackStreamActivity(streamRecovery, now) ELSE streamRecovery
    /\ broadcasts' = IF r.live THEN Broadcast(broadcasts, "success") ELSE broadcasts
    /\ UNCHANGED <<proxyVars, controllerVars, observed, scope, now, sessionVars, bufferHealthTracking, nextStallCheck, healthVars>>

\* ---- lib/health.js: the poll tick and the reconnect attempt ----
checkConnectionHealth ==
    /\ nextHealthCheck # NULL
    /\ nextHealthCheck <= now
    /\ nextHealthCheck' = nextHealthCheck + HEARTBEAT_INTERVAL
    /\ IF connectionHealth = NoEntry
       THEN UNCHANGED <<connectionHealth, probes, reconnectTimers, announced>>
       ELSE IF ~activeSessions
       THEN /\ connectionHealth' = NoEntry
            /\ probes' = OrphanedProbes(probes)
            /\ UNCHANGED <<reconnectTimers, announced>>
       ELSE /\ connectionHealth' = CheckedHealth(connectionHealth, now)
            /\ announced' =
                IF EntersUnhealthy(connectionHealth, now) THEN "unhealthy"
                ELSE IF EntersDegraded(connectionHealth, now) THEN "degraded"
                ELSE announced
            /\ reconnectTimers' =
                IF /\ EntersUnhealthy(connectionHealth, now)
                   /\ SchedulesReconnect(connectionHealth)
                THEN reconnectTimers \cup {now + RECONNECT_DELAY}
                ELSE reconnectTimers
            /\ UNCHANGED probes
    /\ UNCHANGED <<proxyVars, controllerVars, observed, scope, now, sessionVars, bufferHealthTracking, stallVars>>

\* setTimeout(() => attemptReconnect(deviceIp), RECONNECT_DELAY) fires
attemptReconnect(due) ==
    /\ due \in reconnectTimers
    /\ due <= now
    /\ reconnectTimers' = reconnectTimers \ {due}
    /\ IF ReconnectSkipped(connectionHealth)
       THEN UNCHANGED <<connectionHealth, probes, announced>>
       ELSE /\ connectionHealth' =
                [connectionHealth EXCEPT !.reconnectAttempts = @ + 1,
                                         !.connectionState = "reconnecting"]
            /\ announced' = "reconnecting"
            /\ probes' =
                IF activeSessions
                THEN Plus(probes, [live |-> TRUE, frozen |-> 0])
                ELSE probes
    /\ UNCHANGED <<proxyVars, controllerVars, observed, scope, now, sessionVars, bufferHealthTracking, stallVars,
                   nextHealthCheck>>

\* the getStatus callback with a status: updateHeartbeat(deviceIp)
ProbeSucceeded(p) ==
    /\ probes' = Minus(probes, p)
    /\ connectionHealth' = updateHeartbeat(connectionHealth, now)
    /\ announced' = AnnounceBeat(connectionHealth, announced)
    /\ UNCHANGED <<proxyVars, controllerVars, observed, scope, now, sessionVars, bufferHealthTracking, stallVars,
                   nextHealthCheck, reconnectTimers>>

\* if (health.reconnectAttempts >= MAX_RECONNECT_ATTEMPTS) broadcast 'failed'
AnnouncesFailed(attempts) == attempts >= MAX_RECONNECT_ATTEMPTS

\* the getStatus callback with an error or without a status
ProbeFailed(p) ==
    /\ probes' = Minus(probes, p)
    /\ announced' = IF AnnouncesFailed(ReconnectsOf(p)) THEN "failed" ELSE announced
    /\ UNCHANGED <<proxyVars, controllerVars, observed, scope, now, sessionVars, bufferHealthTracking, stallVars,
                   nextHealthCheck, connectionHealth, reconnectTimers>>

\* ---- lib/proxy.js: resolveM3u8Url ----
\* A string is the sequence of its pieces, and concatenation is \o.  The lines
\* a manifest is made of here: empty, blank, tags (one indented, one the end
\* marker), relative segment names (one with a trailing blank), an absolute
\* URL, a protocol-relative one, and an absolute prefix that is no URL.
ManifestLines ==
    {<<>>, <<" ">>, <<"#EXTM3U">>, <<" ", "#EXTINF:4.0,">>, <<"#EXT-X-ENDLIST">>,
     <<"segment001.ts">>, <<"segment002.ts", " ">>,
     <<"https://", "cdn1.example.com/live/seg1001.ts">>,
     <<"//", "cdn2.example.com/live/seg1002.ts">>,
     <<"http://">>}

Referers == {<<>>, <<"https://site.example/watch">>}

\* the manifest URL of the request: new URL(url)
baseUrl ==
    [protocol |-> <<"https:">>, host |-> <<"cdn.example.com">>,
     directory |-> <<"/videos/">>, file |-> <<"stream.m3u8">>]

\* req.headers.host
proxyHost == <<"192.168.1.10:3000">>

Blank(piece) == piece = " "

RECURSIVE TrimStart(_)
TrimStart(line) ==
    IF line # <<>> /\ Blank(Head(line)) THEN TrimStart(Tail(line)) ELSE line

RECURSIVE TrimEnd(_)
TrimEnd(line) ==
    IF line # <<>> /\ Blank(line[Len(line)])
    THEN TrimEnd(SubSeq(line, 1, Len(line) - 1))
    ELSE line

\* line.trim()
Trim(line) == TrimEnd(TrimStart(line))

\* trimmed.startsWith(prefix), for the prefixes the resolver tests
StartsWith(trimmed, prefix) ==
    /\ trimmed # <<>>
    /\ CASE prefix = "#" -> Head(trimmed) \in {"#EXTM3U", "#EXTINF:4.0,", "#EXT-X-ENDLIST"}
         [] prefix = "http" -> Head(trimmed) \in {"http://", "https://"}
         [] prefix = "//" -> Head(trimmed) = "//"

\* new URL(text) does not throw: a scheme with nothing after it is no URL
Parses(text) == ~(Len(text) = 1 /\ Head(text) \in {"http://", "https://"})

\* new URL(trimmed, baseUrl).href
Href(trimmed, base) == base.protocol \o <<"//">> \o base.host \o base.directory \o trimmed

NotUrl == [isUrl |-> FALSE, url |-> <<>>]

resolveM3u8Url(line, base) ==
    LET trimmed == Trim(line)
    IN  IF trimmed = <<>> \/ StartsWith(trimmed, "#") THEN NotUrl
        ELSE IF StartsWith(trimmed, "http")
        THEN IF Parses(trimmed) THEN [isUrl |-> TRUE, url |-> trimmed] ELSE NotUrl
        ELSE IF StartsWith(trimmed, "//")
        THEN IF Parses(base.protocol \o trimmed)
             THEN [isUrl |-> TRUE, url |-> base.protocol \o trimmed]
             ELSE NotUrl
        ELSE [isUrl |-> TRUE, url |-> Href(trimmed, base)]

\* ---- routes/proxy.js: the manifest rewriter ----
\* encodeURIComponent(text): the text, percent-encoded
encodeURIComponent(text) == [percentEncoded |-> text]

\* `http://${req.headers.host}/proxy?url=${...}&referer=${...}`
ProxyUrl(url, referer) ==
    <<"http://">> \o proxyHost \o <<"/proxy?url=", encodeURIComponent(url),
                                    "&referer=", encodeURIComponent(referer)>>

RewriteLine(line, referer) ==
    LET result == resolveM3u8Url(line, baseUrl)
    IN  IF ~result.isUrl THEN line ELSE ProxyUrl(result.url, referer)

\* rewrittenM3u8 that leaves out the lines it does not rewrite
rewrittenM3u8Urls(lines, referer) ==
    LET kept == SelectSeq(lines, LAMBDA line : resolveM3u8Url(line, baseUrl).isUrl)
    IN  [i \in 1..Len(kept) |-> RewriteLine(kept[i], referer)]

\* originalM3u8.split('\n').map(line => ...).join('\n'), on the lines of the text
rewrittenM3u8(lines, referer) ==
    [i \in 1..Len(lines) |-> RewriteLine(lines[i], referer)]

\* !originalM3u8.includes('#EXT-X-ENDLIST')
isLive(lines) == ~\E i \in 1..Len(lines) : \E j \in 1..Len(lines[i]) :
                        lines[i][j] = "#EXT-X-ENDLIST"

\* a manifest text and a referer to rewrite it with; the text rewritten
NoRewriting == [pc |-> "none", text |-> <<>>, referer |-> <<>>, out |-> <<>>]

RECURSIVE Texts(_)
Texts(n) ==
    IF n = 0 THEN {<<>>}
    ELSE LET shorter == Texts(n - 1)
         IN  shorter \cup {Append(text, line) : text \in shorter, line \in ManifestLines}

\* a manifest text arrives from the origin
RewriteRequest(text, referer) ==
    /\ Follows("rewriter")
    /\ rewriting.pc = "none"
    /\ rewriting' = [pc |-> "read", text |-> text, referer |-> referer, out |-> <<>>]
    /\ UNCHANGED <<playlistCache, manifestCall, samples, segmentCall, proxyCall, cacheHits, nextSweep, controllerVars, scope, now,
                   sessionVars, bufferHealthTracking, stallVars, healthVars, observed>>

\* response.data.on('end'): the text is rewritten
Rewrite ==
    /\ Follows("rewriter")
    /\ rewriting.pc = "read"
    /\ rewriting' = [rewriting EXCEPT !.pc = "rewritten",
                                      !.out = rewrittenM3u8(rewriting.text, rewriting.referer)]
    /\ UNCHANGED <<playlistCache, manifestCall, samples, segmentCall, proxyCall, cacheHits, nextSweep, controllerVars, scope, now,
                   sessionVars, bufferHealthTracking, stallVars, healthVars, observed>>

\* ---- routes/proxy.js: GET /proxy for a manifest, and the playlist cache ----
\* the texts the origin serves for the manifest URL
LiveText == <<<<"#EXTM3U">>, <<"segment001.ts">>>>
VodText == <<<<"#EXTM3U">>, <<"segment001.ts">>, <<"#EXT-X-ENDLIST">>>>
OriginTexts == {LiveText, VodText}

\* statuses the origin refuses a manifest with; 0: no response (transport error)
OriginErrors == {0, 403, 404, 500, 503}

\* the clock moves on by one millisecond, or to a millisecond before a TTL
ClockSteps == {1, CACHE_TTL_LIVE - 1, CACHE_TTL_VOD - CACHE_TTL_LIVE - 1}

NoManifestCall ==
    [pc |-> "idle", at |-> 0, referer |-> <<>>, fetches |-> 0, upstream |-> 0,
     text |-> <<>>, status |-> 0, body |-> <<>>]

\* const cacheTTL = cached?.isLive ? CACHE_TTL_LIVE : CACHE_TTL_VOD
cacheTTL(cached) ==
    IF cached # NoEntry /\ cached.isLive THEN CACHE_TTL_LIVE ELSE CACHE_TTL_VOD

\* CacheValid with the entry still valid at the age of its TTL
CacheValidAtTtl(cached, t) ==
    cached # NoEntry /\ t - cached.timestamp <= cacheTTL(cached)

\* cached && (Date.now() - cached.timestamp < cacheTTL)
CacheValid(cached, t) ==
    cached # NoEntry /\ t - cached.timestamp < cacheTTL(cached)

\* Date.now() moves on
AdvanceMs(ms) ==
    /\ Follows("proxy")
    /\ samples < MaxSamples
    /\ now + ms <= nextSweep
    /\ samples' = samples + 1
    /\ now' = now + ms
    /\ UNCHANGED <<playlistCache, manifestCall, rewriting, segmentCall, proxyCall, cacheHits, nextSweep, controllerVars, scope,
                   sessionVars, bufferHealthTracking, stallVars, healthVars, observed>>

\* ManifestRequest with the timestamp of the entry refreshed by a cache hit
ManifestRequestRefreshing(referer) ==
    /\ Follows("proxy")
    /\ manifestCall.pc # "fetching"
    /\ CacheValid(playlistCache, now) => cacheHits < MaxHits
    /\ cacheHits' = IF CacheValid(playlistCache, now) THEN cacheHits + 1 ELSE cacheHits
    /\ manifestCall' =
        IF CacheValid(playlistCache, now)
        THEN [NoManifestCall EXCEPT !.pc = "done", !.at = now, !.referer = referer,
                                    !.status = 200, !.body = playlistCache.content]
        ELSE [NoManifestCall EXCEPT !.pc = "fetching", !.at = now,
                                    !.referer = referer, !.fetches = 1]
    /\ playlistCache' =
        IF CacheValid(playlistCache, now) THEN [playlistCache EXCEPT !.timestamp = now]
        ELSE playlistCache
    /\ UNCHANGED <<rewriting, samples, segmentCall, proxyCall, nextSweep, controllerVars,
                   scope, now, sessionVars, bufferHealthTracking, stallVars, healthVars,
                   observed>>

\* GET /proxy?url=<manifest>&referer=<referer>: a valid cache entry is served,
\* otherwise the manifest is fetched from the origin
ManifestRequest(referer) ==
    /\ Follows("proxy")
    /\ manifestCall.pc # "fetching"
    /\ CacheValid(playlistCache, now) => cacheHits < MaxHits
    /\ cacheHits' = IF CacheValid(playlistCache, now) THEN cacheHits + 1 ELSE cacheHits
    /\ manifestCall' =
        IF CacheValid(playlistCache, now)
        THEN [NoManifestCall EXCEPT !.pc = "done", !.at = now, !.referer = referer,
                                    !.status = 200, !.body = playlistCache.content]
        ELSE [NoManifestCall EXCEPT !.pc = "fetching", !.at = now,
                                    !.referer = referer, !.fetches = 1]
    /\ UNCHANGED <<playlistCache, rewriting, samples, segmentCall, proxyCall, nextSweep, controllerVars, scope, now,
                   sessionVars, bufferHealthTracking, stallVars, healthVars, observed>>

\* the origin's text has been read to its end: it is rewritten, cached and sent
ManifestFetched(text) ==
    /\ Follows("proxy")
    /\ manifestCall.pc = "fetching"
    /\ playlistCache' =
        [content |-> rewrittenM3u8(text, manifestCall.referer), timestamp |-> now,
         isLive |-> isLive(text)]
    /\ manifestCall' =
        [manifestCall EXCEPT !.pc = "done", !.upstream = 200, !.text = text,
                             !.status = 200,
                             !.body = rewrittenM3u8(text, manifestCall.referer)]
    /\ UNCHANGED <<rewriting, samples, segmentCall, proxyCall, cacheHits, nextSweep, controllerVars, scope, now,
                   sessionVars, bufferHealthTracking, stallVars, healthVars, observed>>

\* validateStatus: (status) => status < 500: axios resolves with a 4xx
\* response, which the route answers with response.status; it throws on a 5xx
\* response and on a transport error, which the route's catch answers with 500
Surfaced(upstream) == IF upstream >= 400 /\ upstream < 500 THEN upstream ELSE 500

\* the origin refuses the manifest, or does not answer
ManifestRefused(upstream) ==
    /\ Follows("proxy")
    /\ manifestCall.pc = "fetching"
    /\ manifestCall' =
        [manifestCall EXCEPT !.pc = "done", !.upstream = upstream,
                             !.status = Surfaced(upstream)]
    /\ UNCHANGED <<playlistCache, rewriting, samples, segmentCall, proxyCall, cacheHits, nextSweep, controllerVars, scope, now,
                   sessionVars, bufferHealthTracking, stallVars, healthVars, observed>>

\* setInterval(() => { ... }, 120000): the period of the cache sweep
SweepInterval == 120000

\* how long after the model's first instant the timer fires first: at the age
\* of a TTL of an entry fetched at the first instant, and a millisecond later
SweepPhases == {CACHE_TTL_LIVE, CACHE_TTL_LIVE + 1, CACHE_TTL_VOD}

\* const ttl = value.isLive ? CACHE_TTL_LIVE : CACHE_TTL_VOD;
\* if (now - value.timestamp > ttl) playlistCache.delete(key)
Swept(value, t) ==
    t - value.timestamp > (IF value.isLive THEN CACHE_TTL_LIVE ELSE CACHE_TTL_VOD)

\* the timer of the cache sweep fires
CacheSweep ==
    /\ Follows("proxy")
    /\ now = nextSweep
    /\ playlistCache' =
        IF playlistCache # NoEntry /\ Swept(playlistCache, now) THEN NoEntry
        ELSE playlistCache
    /\ nextSweep' = now + SweepInterval
    /\ UNCHANGED <<manifestCall, rewriting, samples, segmentCall, proxyCall, cacheHits,
                   controllerVars, scope, now, sessionVars, bufferHealthTracking, stallVars,
                   healthVars, observed>>

\* ---- routes/proxy.js: GET /proxy for a segment or another file ----
\* The URLs requested are https://cdn<h>.example.com/live/seg<n><ext>, where
\* the host has a number h or none and the file name a number n or none:
\* hostNumber and index hold the number, or nothing.
SegmentUrls ==
    [hostNumber : {{}, {3}, {7}}, index : {{}, {7}}, ext : {".ts", ".m4s", ".bin"}]

NoUrl == [hostNumber |-> {}, index |-> {}, ext |-> ""]

\* url.includes('.ts') || url.includes('.m4s') || url.includes('.mp4')
isVideoSegment(url) == url.ext \in {".ts", ".m4s", ".mp4"}

Shape(url) == IF isVideoSegment(url) THEN "segment" ELSE "other"

\* currentUrl.match(/(\d+)\.(?:ts|m4s|mp4)(\?.*)?$/)
SegmentNumberMatch(url) == url.index # {} /\ isVideoSegment(url)

\* tryNextSegment up to its HEAD: null without a match; otherwise
\* currentUrl.replace(`${segmentNumber}.`, `${nextSegmentNumber}.`), which
\* replaces the first "<n>." of the URL: the host's number when it is n too
nextUrl(url) ==
    IF ~SegmentNumberMatch(url) THEN NoUrl
    ELSE LET segmentNumber == CHOOSE n \in url.index : TRUE
         IN  IF segmentNumber \in url.hostNumber
             THEN [url EXCEPT !.hostNumber = {segmentNumber + 1}]
             ELSE [url EXCEPT !.index = {segmentNumber + 1}]

\* the body sent to the client: nothing yet, the empty body, or the content
\* the origin serves at a URL
NoBody == [kind |-> "none", of |-> NoUrl]
EmptyBody == [kind |-> "empty", of |-> NoUrl]
ContentOf(url) == [kind |-> "content", of |-> url]

\* const maxRetries = isVideoSegment ? 10 : 0
maxRetries(shape) == IF shape = "segment" THEN 10 ELSE 0

\* what a GET at the origin ends with: a status, or 0 for a transport error
Outcomes == {0, 200, 403, 404, 503}

\* how long the origin takes to answer a GET, in ms (timeout: 30000)
Latencies == {0, 50, 1000, 4000}

\* how long the HEAD of tryNextSegment takes, in ms (timeout: 1000)
ProbeLatencies == {0, 1000}

RECURSIVE Pow(_, _)
Pow(base, exponent) == IF exponent = 0 THEN 1 ELSE base * Pow(base, exponent - 1)

Min(a, b) == IF a < b THEN a ELSE b

\* RetryDelay with no time passing between the attempts
RetryDelayNone(attempt) == 0

\* Math.min(200 * Math.pow(1.5, attempt), 800): 200, 300, 450, 675, 800, ...
RetryDelay(attempt) == Min((200 * Pow(3, attempt)) \div Pow(2, attempt), 800)

NoSegmentCall ==
    [pc |-> "idle", shape |-> "other", attempt |-> 0, elapsed |-> 0, elapsedTime |-> 0,
     url |-> NoUrl, currentUrl |-> NoUrl, segmentSkipped |-> FALSE, gets |-> 0,
     probes |-> 0, last |-> 0, status |-> 0, contentType |-> "", body |-> NoBody]

\* the give-up test with the request given up only after 40000 ms
GiveUpTenfold(elapsedTime, shape) == elapsedTime >= 40000 /\ shape = "segment"

\* the give-up test with the request given up only after more than 4000 ms
GiveUpLate(elapsedTime, shape) == elapsedTime > 4000 /\ shape = "segment"

\* elapsedTime >= 4000 && isVideoSegment
GiveUp(elapsedTime, shape) == elapsedTime >= 4000 /\ shape = "segment"

\* res.status(200), Content-Type video/mp2t, Content-Length 0, res.end()
SoftSkip(call) ==
    [call EXCEPT !.pc = "done", !.status = 200, !.contentType = "video/mp2t",
                 !.body = EmptyBody]

\* what follows a failed attempt once the skip-ahead is out of the way: give
\* up, or wait for the retry, or answer with the upstream status; an error
\* thrown by axios (5xx, transport) is thrown on to the route's catch: 500
AfterFailure(call) ==
    IF GiveUp(call.elapsedTime, call.shape) THEN SoftSkip(call)
    ELSE IF call.attempt < maxRetries(call.shape) THEN [call EXCEPT !.pc = "wait"]
    ELSE [call EXCEPT !.pc = "done",
                      !.status = IF call.last >= 400 /\ call.last < 500
                                 THEN call.last ELSE 500]

\* GET /proxy?url=<segment or file>: the loop starts with attempt 0
SegmentRequest(url) ==
    /\ Follows("segment")
    /\ segmentCall.pc \in {"idle", "done"}
    /\ segmentCall' = [NoSegmentCall EXCEPT !.pc = "get", !.shape = Shape(url),
                                            !.url = url, !.currentUrl = url]
    /\ UNCHANGED <<playlistCache, manifestCall, rewriting, samples, proxyCall, cacheHits, nextSweep, controllerVars,
                   scope, now, sessionVars, bufferHealthTracking, stallVars,
                   healthVars, observed>>

\* the GET of the attempt ends: a response below 400 is streamed to the client;
\* a 404 on attempt 0 of a segment whose URL has a segment number goes to the
\* probe of the URL tryNextSegment computes; any other failure is given up,
\* retried or answered
GetAnswered(latency, outcome) ==
    /\ Follows("segment")
    /\ segmentCall.pc = "get"
    /\ LET call == [segmentCall EXCEPT !.gets = @ + 1, !.last = outcome,
                                       !.elapsed = @ + latency]
           failed == [call EXCEPT !.elapsedTime = call.elapsed]
       IN  segmentCall' =
            IF outcome >= 200 /\ outcome < 400
            THEN [call EXCEPT !.pc = "done", !.status = outcome,
                              !.contentType = "upstream",
                              !.body = ContentOf(call.currentUrl)]
            ELSE IF /\ outcome = 404 /\ call.shape = "segment" /\ call.attempt = 0
                    /\ nextUrl(call.currentUrl) # NoUrl
            THEN [failed EXCEPT !.pc = "probe"]
            ELSE AfterFailure(failed)
    /\ UNCHANGED <<playlistCache, manifestCall, rewriting, samples, proxyCall, cacheHits, nextSweep, controllerVars,
                   scope, now, sessionVars, bufferHealthTracking, stallVars,
                   healthVars, observed>>

\* tryNextSegment returns: the URL it computed when its HEAD is answered
\* 200, and the loop continues with it at once; otherwise null, and the
\* failure is handled with the elapsedTime taken before the probe
ProbeAnswered(latency, found) ==
    /\ Follows("segment")
    /\ segmentCall.pc = "probe"
    /\ LET call == [segmentCall EXCEPT !.probes = @ + 1, !.elapsed = @ + latency]
       IN  segmentCall' =
            IF found
            THEN [call EXCEPT !.pc = "get", !.currentUrl = nextUrl(call.currentUrl),
                              !.segmentSkipped = TRUE, !.attempt = @ + 1]
            ELSE AfterFailure(call)
    /\ UNCHANGED <<playlistCache, manifestCall, rewriting, samples, proxyCall, cacheHits, nextSweep, controllerVars,
                   scope, now, sessionVars, bufferHealthTracking, stallVars,
                   healthVars, observed>>

\* the delay before the retry is over: the next attempt starts
DelayOver ==
    /\ Follows("segment")
    /\ segmentCall.pc = "wait"
    /\ segmentCall' = [segmentCall EXCEPT !.pc = "get", !.attempt = @ + 1,
                                          !.elapsed = @ + RetryDelay(segmentCall.attempt)]
    /\ UNCHANGED <<playlistCache, manifestCall, rewriting, samples, proxyCall, cacheHits, nextSweep, controllerVars,
                   scope, now, sessionVars, bufferHealthTracking, stallVars,
                   healthVars, observed>>

\* ---- specifications ----
InitMaps ==
    /\ now = TickMs
    /\ pendingCast = FALSE
    /\ activeSessions = FALSE
    /\ bufferHealthTracking = NoEntry
    /\ streamRecovery = NoEntry
    /\ recoveries = EmptyBag
    /\ broadcasts = NoBroadcasts
    /\ connectionHealth = NoEntry
    /\ reconnectTimers = {}
    /\ probes = EmptyBag
    /\ announced = "none"
    /\ streamStats = FALSE
    /\ playbackTracking = FALSE
    /\ deviceToClientMap = FALSE
    /\ castCall = NoCall
    /\ stopCall = NoStop
    /\ clients = EmptyBag
    /\ playlistCache = NoEntry
    /\ manifestCall = NoManifestCall
    /\ rewriting = NoRewriting
    /\ segmentCall = NoSegmentCall
    /\ proxyCall = NoProxyCall
    /\ cacheHits = 0
    /\ nextSweep \in IF Follows("proxy") THEN {TickMs + phase : phase \in SweepPhases}
                    ELSE {NULL}
    /\ samples = 0
    /\ bufferingSince = NULL
    /\ startedSinceRequest = FALSE

Session ==
    \/ CastRequest
    \/ LoadSuccess
    \/ LoadFailed
    \/ \E playerState \in PlayerStates : PlayerStatus(playerState)
    \/ ProxyRequest
    \/ StopCasting
    \/ PlayerClose
    \/ ClientError

\* The stall detector with the session controller.  checkConnectionHealth and
\* attemptReconnect read and write the connectionHealth map alone, which nothing
\* here reads, so their timers are left out of this specification.
Init ==
    /\ scope = {"stall"}
    /\ InitMaps
    /\ nextStallCheck = TickMs + STALL_POLL_INTERVAL
    /\ nextHealthCheck = NULL

Next ==
    \/ Advance
    \/ Session
    \/ checkStreamStalls
    \/ \E r \in BagToSet(recoveries) : StopDone(r)
    \/ \E r \in BagToSet(recoveries) : SettleDone(r)
    \/ \E r \in BagToSet(recoveries) : ReloadFailed(r)
    \/ \E r \in BagToSet(recoveries) : ReloadSucceeded(r)

Spec == Init /\ [][Next]_vars

\* The connection health monitor with the session controller; the stall
\* detector's timer is left out likewise.
InitHealth ==
    /\ scope = {"health"}
    /\ InitMaps
    /\ nextStallCheck = NULL
    /\ nextHealthCheck = TickMs + HEARTBEAT_INTERVAL

NextHealth ==
    \/ Advance
    \/ Session
    \/ checkConnectionHealth
    \/ \E due \in reconnectTimers : attemptReconnect(due)
    \/ \E p \in BagToSet(probes) : ProbeSucceeded(p)
    \/ \E p \in BagToSet(probes) : ProbeFailed(p)

SpecHealth == InitHealth /\ [][NextHealth]_vars

\* The session controller with every map of the device: the cast and stop
\* requests, their callbacks and the load timeout, at one instant (the
\* callbacks of the cast client arrive after any delay, so the load timeout
\* may fire before or after any of them; the two poll timers are left out).
InitSession ==
    /\ scope = {"session", "stall", "health"}
    /\ InitMaps
    /\ nextStallCheck = NULL
    /\ nextHealthCheck = NULL

NextSession ==
    \/ CastRequest
    \/ Launched
    \/ LoadTimeout
    \/ LoadSuccess
    \/ LoadFailed
    \/ PendingClientError
    \/ \E playerState \in PlayerStates : PlayerStatus(playerState)
    \/ ProxyRequest
    \/ StopMissing
    \/ StopSent
    \/ StopThrows
    \/ StopCallback
    \/ \E c \in BagToSet(clients) : OldStopDone(c)
    \/ PlayerClose
    \/ ClientError
    \/ \E c \in BagToSet(clients) : OldPlayerClose(c)
    \/ \E c \in BagToSet(clients) : OldClientError(c)

SpecSession == InitSession /\ [][NextSession]_vars

\* Cast requests for one device that may arrive while earlier ones are still
\* connecting or loading, with their load callbacks in any order, the status
\* reports and proxy requests of the device and the stop callbacks of
\* castToDevice.
InitOverlap ==
    /\ scope = {"session", "stall", "health", "overlap"}
    /\ InitMaps
    /\ nextStallCheck = NULL
    /\ nextHealthCheck = NULL

NextOverlap ==
    \/ CastRequest
    \/ \E c \in BagToSet(clients) : LoadSuccessOf(c)
    \/ \E c \in BagToSet(clients) : LoadFailedOf(c)
    \/ \E c \in BagToSet(clients) : OldStopDone(c)
    \/ \E playerState \in PlayerStates : PlayerStatus(playerState)
    \/ ProxyRequest

SpecOverlap == InitOverlap /\ [][NextOverlap]_vars

\* The connection health monitor with the proxy requests of the device followed
\* from their arrival to their answer.
InitGate ==
    /\ scope = {"health", "gate"}
    /\ InitMaps
    /\ nextStallCheck = NULL
    /\ nextHealthCheck = TickMs + HEARTBEAT_INTERVAL

NextGate ==
    \/ NextHealth
    \/ UrlBlocked
    \/ UrlAllowed
    \/ \E status \in ProxyAnswers : ProxyAnswered(status)

SpecGate == InitGate /\ [][NextGate]_vars

\* The buffer health tracker with the session controller and the clock; no
\* poll timer is followed.
InitScore ==
    /\ scope = {"score"}
    /\ InitMaps
    /\ nextStallCheck = NULL
    /\ nextHealthCheck = NULL

NextScore ==
    \/ Advance
    \/ CastRequest
    \/ LoadSuccess
    \/ LoadFailed
    \/ \E playerState \in PlayerStates : PlayerStatus(playerState)
    \/ StopCasting
    \/ PlayerClose
    \/ ClientError

SpecScore == InitScore /\ [][NextScore]_vars

\* The playlist cache with the manifest requests of one manifest URL, one at a
\* time, and the proxy's clock.
InitProxy ==
    /\ scope = {"proxy"}
    /\ InitMaps
    /\ nextStallCheck = NULL
    /\ nextHealthCheck = NULL

NextProxy ==
    \/ \E ms \in ClockSteps : AdvanceMs(ms)
    \/ \E referer \in Referers : ManifestRequest(referer)
    \/ \E text \in OriginTexts : ManifestFetched(text)
    \/ \E upstream \in OriginErrors : ManifestRefused(upstream)
    \/ CacheSweep

SpecProxy == InitProxy /\ [][NextProxy]_vars

\* The manifest rewriter on every text of up to MaxLines lines and every referer.
InitRewriter ==
    /\ scope = {"rewriter"}
    /\ InitMaps
    /\ nextStallCheck = NULL
    /\ nextHealthCheck = NULL

NextRewriter ==
    \/ \E text \in Texts(MaxLines), referer \in Referers : RewriteRequest(text, referer)
    \/ Rewrite

SpecRewriter == InitRewriter /\ [][NextRewriter]_vars

\* One segment or file request of the proxy at a time, with what the origin
\* answers and how long it takes.
InitSegment ==
    /\ scope = {"segment"}
    /\ InitMaps
    /\ nextStallCheck = NULL
    /\ nextHealthCheck = NULL

NextSegment ==
    \/ \E url \in SegmentUrls : SegmentRequest(url)
    \/ \E latency \in Latencies, outcome \in Outcomes : GetAnswered(latency, outcome)
    \/ \E latency \in ProbeLatencies, found \in BOOLEAN : ProbeAnswered(latency, found)
    \/ DelayOver

SpecSegment == InitSegment /\ [][NextSegment]_vars

\* The health monitor under fair scheduling of its timers: the event loop runs
\* the setInterval tick and every setTimeout that is due, and the clock moves
\* on.  Nothing obliges the receiver to answer a probe or to send a heartbeat.
SpecHealthFair ==
    /\ SpecHealth
    /\ WF_vars(Advance)
    /\ WF_vars(checkConnectionHealth)
    /\ WF_vars(\E due \in reconnectTimers : attemptReconnect(due))

\* The stall detector under fair scheduling of its timers: the event loop runs
\* the setInterval tick and the settle timeout of a recovery when due, and the
\* clock moves on.  Nothing obliges the receiver to answer a stop or a load.
SpecFair ==
    /\ Spec
    /\ WF_vars(Advance)
    /\ WF_vars(checkStreamStalls)
    /\ WF_vars(\E r \in BagToSet(recoveries) : SettleDone(r))

\* ---- properties ----
\* the step is a pass of checkStreamStalls, of checkConnectionHealth
StallTick == nextStallCheck' # nextStallCheck
HealthTick == nextHealthCheck' # nextHealthCheck

\* the poll tick for the present instant has run
StallTickRan == nextStallCheck > now
HealthTickRan == nextHealthCheck > now

\* a pass of checkStreamStalls that starts a recovery for the device
RecoveryStarted ==
    /\ StallTick
    /\ streamRecovery # NoEntry
    /\ streamRecovery' # NoEntry
    /\ streamRecovery'.recoveryAttempts = streamRecovery.recoveryAttempts + 1

InProgress == [pc |-> "stop", due |-> NULL, live |-> TRUE]
LiveRecoveries == {r \in BagToSet(recoveries) : r.live}

\* C1: the recovery-attempt count of a device never exceeds 3, and a stall
\* poll tick never starts a recovery for a device whose count is already 3.
\* (The count returns to 0 only with a new record or by the reset branch.)
C1_AttemptsBounded ==
    [][/\ streamRecovery' # NoEntry =>
            streamRecovery'.recoveryAttempts <= MAX_RECOVERY_ATTEMPTS
       /\ RecoveryStarted =>
            streamRecovery.recoveryAttempts < MAX_RECOVERY_ATTEMPTS]_vars

\* C1, its case: the count is 3, the device has been buffering for more than
\* 15 s without proxy activity and is not marked stalled, a session is active,
\* and the poll tick of this instant has run without starting a fourth attempt
C1_RefusedAtThree ==
    /\ activeSessions
    /\ streamRecovery # NoEntry
    /\ streamRecovery.recoveryAttempts = MAX_RECOVERY_ATTEMPTS
    /\ ~streamRecovery.stallDetected
    /\ BufferingBranch(bufferHealthTracking)
    /\ now - bufferHealthTracking.lastBufferStart > STALL_TIMEOUT
    /\ now - streamRecovery.lastProxyRequest > STALL_TIMEOUT
    /\ StallTickRan

C3_GiveupOnceAfterThird ==
    /\ broadcasts.giveup <= 1
    /\ broadcasts.attempting <= MAX_RECOVERY_ATTEMPTS
    /\ (broadcasts.success = 0 /\ broadcasts.failed < MAX_RECOVERY_ATTEMPTS) =>
            broadcasts.giveup = 0
    /\ (broadcasts.success = 0 /\ broadcasts.failed = MAX_RECOVERY_ATTEMPTS) =>
            broadcasts.giveup = 1

\* C4: a device that was marked stalled, whose tracker reports PLAYING, whose
\* last proxy activity is less than 10 s old and whose last recovery attempt is
\* more than 30 s old, has its stalled flag cleared and its attempt count reset
\* to 0 by the next stall poll tick.
C4_ResetAfterRecovery ==
    [][(/\ StallTick
        /\ activeSessions
        /\ streamRecovery # NoEntry
        /\ streamRecovery.recoveryAttempts > 0
        /\ bufferHealthTracking # NoEntry
        /\ bufferHealthTracking.lastState = "PLAYING"
        /\ now - streamRecovery.lastProxyRequest < RESET_ACTIVITY_WINDOW
        /\ now - streamRecovery.lastRecoveryAttempt > RESET_COOLDOWN
        /\ broadcasts.success > 0) =>
            /\ streamRecovery' # NoEntry
            /\ ~streamRecovery'.stallDetected
            /\ streamRecovery'.recoveryAttempts = 0]_vars

\* the record a poll tick leaves when it triggers a recovery at instant t
Triggered(recovery, t) ==
    [recovery EXCEPT !.stallDetected = TRUE,
                     !.recoveryAttempts = recovery.recoveryAttempts + 1,
                     !.lastRecoveryAttempt = t]

\* a device with a session that is not marked stalled, has attempts left and
\* has seen no proxy activity for more than 15 s
Recoverable ==
    /\ activeSessions
    /\ streamRecovery # NoEntry
    /\ bufferHealthTracking # NoEntry
    /\ bufferHealthTracking.lastState = "BUFFERING"
    /\ now - streamRecovery.lastProxyRequest > STALL_TIMEOUT
    /\ ~streamRecovery.stallDetected
    /\ streamRecovery.recoveryAttempts < MAX_RECOVERY_ATTEMPTS

\* the tick marks the device stalled, counts and times the attempt, starts it
TriggersRecovery ==
    /\ streamRecovery' = Triggered(streamRecovery, now)
    /\ CopiesIn(InProgress, recoveries') = CopiesIn(InProgress, recoveries) + 1
    /\ broadcasts'.attempting = broadcasts.attempting + 1

C6_TickNeedsSession ==
    [][(StallTick /\ streamRecovery' # streamRecovery) => activeSessions]_vars

\* C7: after a connection-health poll tick, a device with a session and m
\* missed heartbeats is healthy if m is 0 or 1, degraded if m is 2, and
\* unhealthy or reconnecting if m is 3 or more.
C7_StateByMissed ==
    [][(HealthTick /\ activeSessions /\ connectionHealth' # NoEntry) =>
        LET m == Missed(now - connectionHealth'.lastHeartbeat)
            state == connectionHealth'.connectionState
        IN  /\ m <= 1 => state = "healthy"
            /\ m = DEGRADED_MISSED => state = "degraded"
            /\ m >= MAX_MISSED_HEARTBEATS => state \in {"unhealthy", "reconnecting"}]_vars

\* C7, its case: the tick of this instant has run for a device with a session
\* that missed exactly two heartbeats, and left it degraded
C7_DegradedAtTwo ==
    /\ activeSessions
    /\ connectionHealth # NoEntry
    /\ Missed(now - connectionHealth.lastHeartbeat) = DEGRADED_MISSED
    /\ connectionHealth.missedHeartbeats = DEGRADED_MISSED
    /\ connectionHealth.connectionState = "degraded"
    /\ HealthTickRan

\* C8: every transition of a device into unhealthy schedules exactly one
\* reconnect attempt, and a poll tick that finds the device unhealthy or
\* reconnecting schedules none.
C8_OneReconnectPerTransition ==
    [][/\ (/\ connectionHealth # NoEntry
           /\ connectionHealth' # NoEntry
           /\ connectionHealth.connectionState # "unhealthy"
           /\ connectionHealth'.connectionState = "unhealthy") =>
            /\ now + RECONNECT_DELAY \notin reconnectTimers
            /\ reconnectTimers' = reconnectTimers \cup {now + RECONNECT_DELAY}
       /\ (/\ HealthTick
           /\ connectionHealth # NoEntry
           /\ connectionHealth.connectionState \in {"unhealthy", "reconnecting"}) =>
            reconnectTimers' = reconnectTimers]_vars

\* C8, its case: the device turned unhealthy one tick ago, the tick of this
\* instant found it unhealthy, and the one reconnect timer is pending
C8_OneTimerPending ==
    /\ activeSessions
    /\ connectionHealth # NoEntry
    /\ connectionHealth.connectionState = "unhealthy"
    /\ connectionHealth.missedHeartbeats > MAX_MISSED_HEARTBEATS
    /\ reconnectTimers = {now - HEARTBEAT_INTERVAL + RECONNECT_DELAY}
    /\ now - connectionHealth.lastHeartbeat
            = (MAX_MISSED_HEARTBEATS + 1) * HEARTBEAT_INTERVAL
    /\ HealthTickRan

\* the edges of the connection state machine, and restoration to healthy
StateEdges ==
    {<<"healthy", "degraded">>, <<"degraded", "unhealthy">>,
     <<"unhealthy", "reconnecting">>, <<"reconnecting", "healthy">>,
     <<"reconnecting", "failed">>}
        \cup {<<state, "healthy">> : state \in {"degraded", "unhealthy", "failed"}}

\* C9: the connection state of a device changes along the edges of the state
\* machine only: never from healthy to unhealthy, never from healthy or
\* degraded to reconnecting.
C9_StateEdgesOnly ==
    [][(/\ connectionHealth # NoEntry
        /\ connectionHealth' # NoEntry
        /\ connectionHealth'.connectionState # connectionHealth.connectionState) =>
            <<connectionHealth.connectionState, connectionHealth'.connectionState>>
                \in StateEdges]_vars

Heartbeat ==
    \/ \E playerState \in PlayerStates : PlayerStatus(playerState)
    \/ ProxyRequest
    \/ \E p \in BagToSet(probes) : ProbeSucceeded(p)

\* the monitor still has something ahead for the device: the thresholds of the
\* poll tick are not passed yet, or a reconnect attempt is scheduled or its
\* probe unanswered
AttemptAhead ==
    /\ connectionHealth # NoEntry
    /\ \/ connectionHealth.connectionState \in {"healthy", "degraded"}
       \/ reconnectTimers # {}
       \/ {p \in BagToSet(probes) : p.live} # {}

Failed ==
    /\ connectionHealth # NoEntry
    /\ connectionHealth.connectionState = "failed"

\* C11: under fair scheduling of the timers, a device whose session stays and
\* that from some moment on receives no heartbeat (every probe fails) ends in
\* the terminal failed state; until then the monitor has a reconnect attempt
\* ahead of it.  (Stated so that a behaviour cut short by the end of the clock
\* satisfies it: the device is then still on its way.)
C11_SilentDeviceFails ==
    (<>[]activeSessions /\ <>[][~Heartbeat]_vars) => <>[](Failed \/ AttemptAhead)

\* the states of a ConnectionHealthRecord
ConnectionStates == {"healthy", "degraded", "unhealthy", "reconnecting", "failed"}

\* a step of a handler that calls updateHeartbeat for a heartbeat of the device
HeartbeatCall ==
    \/ \E playerState \in PlayerStates : PlayerStatus(playerState)
    \/ ProxyRequest

\* what the claim says a heartbeat at instant t makes of a health record
Refreshed(health, t) ==
    [lastHeartbeat |-> t, lastActivity |-> t, missedHeartbeats |-> 0,
     connectionState |-> "healthy",
     reconnectAttempts |->
        IF health.connectionState = "healthy" THEN health.reconnectAttempts ELSE 0]

\* C12: a heartbeat (player status or proxy request) for a device with a
\* health record sets the missed count to 0 and refreshes lastHeartbeat and
\* lastActivity, and from any state but healthy it sets the state to healthy
\* and the reconnect-attempt count to 0; without a health record it changes
\* nothing of the monitor.  The second conjunct says the same of
\* updateHeartbeat on every record, the failed ones included.
C12_HeartbeatRefreshes ==
    [][HeartbeatCall =>
        /\ connectionHealth # NoEntry => connectionHealth' = Refreshed(connectionHealth, now)
        /\ connectionHealth = NoEntry => UNCHANGED healthVars
        /\ \A state \in ConnectionStates, attempts \in 0..MAX_RECONNECT_ATTEMPTS,
              missed \in 0..MAX_MISSED_HEARTBEATS + 1 :
                LET health == [lastHeartbeat |-> TickMs, lastActivity |-> TickMs,
                               missedHeartbeats |-> missed, connectionState |-> state,
                               reconnectAttempts |-> attempts]
                IN  updateHeartbeat(health, now) = Refreshed(health, now)]_vars

\* C12, its case: a heartbeat of this instant has restored a device that was
\* reconnecting (the probe of its reconnect attempt is still unanswered)
C12_RestoredFromReconnecting ==
    /\ activeSessions
    /\ connectionHealth # NoEntry
    /\ connectionHealth = Refreshed(connectionHealth, now)
    /\ connectionHealth.reconnectAttempts = 0
    /\ announced = "healthy"
    /\ BagIn([live |-> TRUE, frozen |-> 0], probes)

\* no map holds a record of the device
NoRecords ==
    /\ ~activeSessions
    /\ ~streamStats
    /\ ~playbackTracking
    /\ bufferHealthTracking = NoEntry
    /\ streamRecovery = NoEntry
    /\ connectionHealth = NoEntry
    /\ ~deviceToClientMap

\* a step that completes a teardown path: the stop callback (with or without
\* an error), a throwing player.stop, an error of the session's cast client,
\* the player's close
TeardownCompletes ==
    \/ StopCallback
    \/ StopThrows
    \/ ClientError
    \/ PlayerClose

\* C13: after any teardown path completes (user stop, also when player.stop
\* reports an error or throws; cast-client error; receiver-reported close) no
\* record of the device remains in any per-device map.
C13_TeardownClearsAll ==
    [][TeardownCompletes => NoRecords']_vars

\* the step ends the pending cast request: its load callback (or the error of
\* its client) has arrived
CastRequestEnds == pendingCast /\ ~pendingCast'

\* C14: a cast request whose load timeout fires before the load callback gets
\* exactly one response, the 408 of the timeout, and the later load callback
\* is a no-op: it registers no SessionRecord, no connection-health record and
\* no recovery record.
C14_TimedOutLoadIsNoOp ==
    [][/\ Len(castCall'.responses) <= 1
       /\ (castCall.timer = "fired" /\ CastRequestEnds) =>
            /\ castCall'.responses = <<408>>
            /\ activeSessions' = activeSessions
            /\ connectionHealth' = connectionHealth
            /\ streamRecovery' = streamRecovery]_vars

\* the clients of a bag that are the record of activeSessions; those the
\* controller let go of without a player.stop
SessionClients(bag) == {c \in BagToSet(bag) : c.role = "session"}
Unstopped(bag) == {c \in BagToSet(bag) : c.role = "old" /\ c.stop = "none"}

deviceMaps ==
    <<activeSessions, streamStats, playbackTracking, bufferHealthTracking,
      streamRecovery, connectionHealth, deviceToClientMap>>

\* the step is the arrival of a stop request; the step answers one
StopArrives == ~stopCall.pending /\ stopCall' # stopCall
StopAnswered == stopCall.pending /\ ~stopCall'.pending

\* C16: a stop request for a device without an active session answers 404
\* and leaves every per-device map unchanged; a stop request for a device with
\* an active session stops the player (player.stop is called on the session's
\* player and its callback awaited), closes the client and answers success.
C16_StopAnswers ==
    [][/\ (StopArrives /\ ~activeSessions) =>
            /\ stopCall' = [pending |-> FALSE, responses |-> <<404>>]
            /\ UNCHANGED deviceMaps
       /\ (StopArrives /\ activeSessions) =>
            /\ stopCall' = [pending |-> TRUE, responses |-> << >>]
            /\ \A c \in SessionClients(clients') : c.stop = "user"
       /\ StopAnswered =>
            /\ stopCall'.responses = <<200>>
            /\ \A c \in BagToSet(clients') : c.stop = "user" => c.closed]_vars

\* ---- C17 ----
\* the manifest request arrives: the route reads the clock and the cache
ManifestArrives ==
    /\ manifestCall.pc # "fetching"
    /\ manifestCall'.pc \in {"fetching", "done"}
    /\ manifestCall' # manifestCall
    /\ playlistCache' = playlistCache

\* the request was answered from the cache, without a fetch
ServedFromCache(call) == call.pc = "done" /\ call.fetches = 0 /\ call.status = 200

ManifestCached == manifestCall.pc = "fetching" /\ manifestCall'.pc = "done"
                    /\ playlistCache' # playlistCache

\* C17: a manifest request is served from the cache if and only if an entry
\* exists and now - timestamp is strictly less than 4000 ms for a live entry,
\* 60000 ms for a VOD entry; and an entry is live exactly when the text fetched
\* for it lacked the #EXT-X-ENDLIST line.
C17_CacheValidity ==
    [][/\ ManifestArrives =>
            (ServedFromCache(manifestCall') <=>
                /\ playlistCache # NoEntry
                /\ now - playlistCache.timestamp <
                        (IF playlistCache.isLive THEN 4000 ELSE 60000))
       /\ ManifestCached =>
            /\ playlistCache'.isLive <=> (manifestCall'.text = LiveText)
            /\ ~playlistCache'.isLive <=> (manifestCall'.text = VodText)]_vars

\* a VOD entry is served at the age of 59999 ms, and a request that finds it
\* at the age of 60000 ms would not be (the theorem, at that age)
C17_ServedAtTtlMinusOne ==
    /\ ServedFromCache(manifestCall)
    /\ playlistCache # NoEntry
    /\ ~playlistCache.isLive
    /\ manifestCall.at - playlistCache.timestamp = CACHE_TTL_VOD - 1

\* ---- C18 ----
\* the origin answers the manifest fetch with a 4xx or 5xx status
OriginRefuses ==
    /\ manifestCall.pc = "fetching"
    /\ manifestCall'.pc = "done"
    /\ manifestCall'.upstream >= 400

\* C18: when the origin answers a manifest fetch with a 4xx or 5xx status, the
\* request has made one fetch, the client is answered with the origin's status
\* code, and the playlist cache is unchanged.
C18_UpstreamStatusSurfaced ==
    [][OriginRefuses =>
        /\ manifestCall'.fetches = 1
        /\ manifestCall'.status = manifestCall'.upstream
        /\ playlistCache' = playlistCache]_vars

\* ---- C19 ----
\* what a line holds beside white space
Content(line) == SelectSeq(line, LAMBDA piece : piece # " ")

BlankLine(line) == Content(line) = <<>>

\* the line is a tag or a comment: '#' is its first character that is not
\* white space
TagLine(line) ==
    ~BlankLine(line) /\ Head(Content(line)) \in {"#EXTM3U", "#EXTINF:4.0,", "#EXT-X-ENDLIST"}

\* the line does not resolve to a URL
Malformed(line) == Content(line) = <<"http://">>

\* the absolute URL a line stands for in the manifest at
\* https://cdn.example.com/videos/stream.m3u8
ResolvedUrl(line) ==
    LET content == Content(line)
    IN  CASE Head(content) \in {"http://", "https://"} -> content
          [] Head(content) = "//" -> <<"https:">> \o content
          [] OTHER -> <<"https:", "//", "cdn.example.com", "/videos/">> \o content

\* C19: the rewritten manifest has as many lines as the text, in the same
\* order: a blank line, a line starting with '#' and a line that does not
\* resolve to a URL are returned identical, and every other line is replaced by
\* the one proxy URL that carries the percent-encoded resolved URL and the
\* percent-encoded referer.
C19_RewritePreservesLines ==
    rewriting.pc = "rewritten" =>
        /\ Len(rewriting.out) = Len(rewriting.text)
        /\ \A i \in 1..Len(rewriting.text) :
            LET line == rewriting.text[i]
            IN  IF BlankLine(line) \/ TagLine(line) \/ Malformed(line)
                THEN rewriting.out[i] = line
                ELSE rewriting.out[i] =
                        <<"http://", "192.168.1.10:3000", "/proxy?url=",
                          [percentEncoded |-> ResolvedUrl(line)], "&referer=",
                          [percentEncoded |-> rewriting.referer]>>

\* a text with a blank line, a tag, and a segment line has been rewritten
C19_MixedTextRewritten ==
    /\ rewriting.pc = "rewritten"
    /\ rewriting.referer # <<>>
    /\ \E i, j, k \in 1..Len(rewriting.text) :
        /\ i < j /\ j < k
        /\ TagLine(rewriting.text[i])
        /\ BlankLine(rewriting.text[j])
        /\ rewriting.text[k] = <<"segment002.ts", " ">>
        /\ Len(rewriting.out[k]) = 6

\* ---- C20 ----
\* an attempt of this segment request has failed with 4000 ms or more elapsed
\* since the request started
FailedLate(call) ==
    /\ call.shape = "segment"
    /\ call.gets >= 1
    /\ ~(call.last >= 200 /\ call.last < 400)
    /\ call.elapsedTime >= 4000

\* one more GET of the request in progress ends
AnotherGet == segmentCall.pc = "get" /\ segmentCall'.gets = segmentCall.gets + 1

\* the request was answered 200 with an empty body as video/mp2t
SoftSkipped(call) ==
    /\ call.pc = "done"
    /\ call.status = 200
    /\ call.body.kind = "empty"
    /\ call.contentType = "video/mp2t"

\* the failed attempt was a 404 on attempt 0 and the fetch was retargeted to
\* the next segment, which has not been fetched yet
JustRetargeted(call) ==
    /\ call.segmentSkipped
    /\ call.attempt = 1
    /\ call.gets = 1
    /\ call.last = 404

\* C20 as stated: once an attempt of a segment request has failed with 4000 ms
\* or more elapsed, no further GET is made for the request, and the request is
\* answered with nothing but 200, an empty body and video/mp2t, with no more
\* than the 10 retries of the budget made.
C20_GiveUpAtFirstLateFailure ==
    [][/\ AnotherGet => ~FailedLate(segmentCall)
       /\ (FailedLate(segmentCall') /\ segmentCall'.pc = "done")
            => SoftSkipped(segmentCall')
       /\ segmentCall'.attempt <= 10]_vars

\* C20, amended: the same, except that a 404 on attempt 0 whose probe finds the
\* next segment retargets the fetch first; the give-up is then applied to the
\* next failed attempt.
C20_GiveUpAfterSkipAhead ==
    [][/\ AnotherGet => (FailedLate(segmentCall) => JustRetargeted(segmentCall))
       /\ (FailedLate(segmentCall') /\ segmentCall'.pc = "done")
            => SoftSkipped(segmentCall')
       /\ segmentCall'.attempt <= 10]_vars

\* a segment request was given up after several failed attempts, with
\* attempts of the budget left
C20_GivenUpWithBudgetLeft ==
    /\ SoftSkipped(segmentCall)
    /\ FailedLate(segmentCall)
    /\ segmentCall.gets >= 3
    /\ segmentCall.attempt < 10

\* ---- C21 ----
\* C21: a segment-shaped request makes at most 10 GETs at the origin, whatever
\* the origin answers.
C21_AtMostTenGets ==
    segmentCall.shape = "segment" => segmentCall.gets <= 10

\* a segment request whose attempts all failed at once was given up after
\* more than 8 GETs
C21_ManyGets ==
    /\ segmentCall.shape = "segment"
    /\ segmentCall.pc = "done"
    /\ segmentCall.body.kind = "empty"
    /\ segmentCall.gets > 8

\* ---- C22 ----
\* the URL of the segment numbered one higher than the segment of url
NextNumbered(url) == [url EXCEPT !.index = {n + 1 : n \in url.index}]

\* the request in progress changes the URL it fetches
Retargets ==
    /\ segmentCall.pc \in {"get", "probe", "wait"}
    /\ segmentCall'.currentUrl # segmentCall.currentUrl

\* the GET of an attempt later than attempt 0 is answered 404
Later404 ==
    /\ segmentCall.pc = "get"
    /\ segmentCall.attempt >= 1
    /\ segmentCall'.gets = segmentCall.gets + 1
    /\ segmentCall'.last = 404

\* the GET made right after the retargeting succeeds
RetargetedFetchSucceeds ==
    /\ segmentCall.pc = "get"
    /\ segmentCall.segmentSkipped
    /\ segmentCall.gets = 1
    /\ segmentCall'.gets = 2
    /\ segmentCall'.last = 200

\* C22: a request changes the URL it fetches only after a 404 on attempt 0,
\* only once, to the URL of the next-numbered segment, and goes on to fetch it
\* without a delay; when that fetch succeeds the body sent is the next
\* segment's content and no further GET is made; a 404 on a later attempt
\* starts no probe and leaves the URL as it is.
C22_SkipAheadToNextSegment ==
    [][/\ Retargets =>
            /\ segmentCall.attempt = 0
            /\ segmentCall.last = 404
            /\ ~segmentCall.segmentSkipped
            /\ segmentCall'.currentUrl = NextNumbered(segmentCall.url)
            /\ segmentCall'.pc = "get"
            /\ segmentCall'.elapsed - segmentCall.elapsed \in ProbeLatencies
       /\ RetargetedFetchSucceeds =>
            /\ segmentCall'.pc = "done"
            /\ segmentCall'.status = 200
            /\ segmentCall'.body = ContentOf(NextNumbered(segmentCall.url))
       /\ Later404 =>
            /\ segmentCall'.pc # "probe"
            /\ segmentCall'.currentUrl = segmentCall.currentUrl]_vars

\* ---- C23 ----
\* the GET of a request that is not segment-shaped ends
OtherFetched ==
    /\ segmentCall.pc = "get"
    /\ segmentCall.shape = "other"
    /\ segmentCall'.gets = segmentCall.gets + 1

\* C23: a request that is neither manifest-shaped nor segment-shaped is over
\* with its first GET, with no probe made and no empty 200 sent in place of an
\* error, and when the origin answered 4xx or 5xx the client is answered with
\* the origin's status code.
C23_OtherFetchedOnce ==
    [][OtherFetched =>
        /\ segmentCall'.gets = 1
        /\ segmentCall'.pc = "done"
        /\ segmentCall'.probes = 0
        /\ ~segmentCall'.segmentSkipped
        /\ segmentCall'.body.kind # "empty"
        /\ segmentCall'.last >= 400 => segmentCall'.status = segmentCall'.last]_vars

\* ---- C24 ----
\* what getBufferHealthStats reports for the device now
ReportedStats == getBufferHealthStats(bufferHealthTracking, now)

ClockStarted == bufferHealthTracking # NoEntry /\ bufferHealthTracking.hasPlayed

\* C24: the reported health score is an integer from 0 to 100; once the
\* session clock has started, the buffering time charged (the completed
\* intervals and the one in progress) is at most the time elapsed since the
\* clock started; and at the instant the clock starts the score is 100.
C24_ScoreInRange ==
    /\ ReportedStats.healthScore \in 0..100
    /\ ClockStarted =>
        /\ bufferHealthTracking.sessionStartTime <= now
        /\ bufferHealthTracking.totalBufferingTime
            + (IF bufferHealthTracking.lastBufferStart # NULL
               THEN now - bufferHealthTracking.lastBufferStart ELSE 0)
                <= now - bufferHealthTracking.sessionStartTime
        /\ bufferHealthTracking.totalBufferingTime >= 0
        /\ now = bufferHealthTracking.sessionStartTime => ReportedStats.healthScore = 100

\* a session with two completed buffering intervals and a third in progress
\* reports a score strictly between 0 and 100
C24_PartlyBuffered ==
    /\ ClockStarted
    /\ bufferHealthTracking.bufferingEvents = 3
    /\ bufferHealthTracking.lastBufferStart # NULL
    /\ bufferHealthTracking.lastBufferStart < now
    /\ bufferHealthTracking.totalBufferingTime > 0
    /\ ReportedStats.healthScore \in 1..99

\* ---- C25 ----
\* a session is registered for the device
SessionStarts == ~activeSessions /\ activeSessions'

\* C25: the session clock is set by a PLAYING report, to the instant of the
\* report, and stays as it is while the record has it; before it is set the
\* tracker reports score 100, no buffering event and no buffering time; and a
\* session that starts has a record without a clock, or none.
C25_ClockSetOncePerSession ==
    [][/\ (~ClockStarted /\ ClockStarted') =>
            /\ bufferHealthTracking'.lastState = "PLAYING"
            /\ bufferHealthTracking'.sessionStartTime = now
       /\ (ClockStarted /\ ClockStarted') =>
            bufferHealthTracking'.sessionStartTime = bufferHealthTracking.sessionStartTime
       /\ ~ClockStarted =>
            ReportedStats =
                [healthScore |-> 100, bufferingEvents |-> 0, totalBufferingTime |-> 0]
       /\ SessionStarts => ~ClockStarted']_vars

\* ---- C26 ----
\* the request in progress ends without success: rejected by the URL check,
\* or answered with an error after the fetch failed
ProxyRequestFails ==
    /\ proxyCall.pc \in {"validating", "fetching"}
    /\ proxyCall'.pc = "done"
    /\ proxyCall'.status >= 400

\* C26: a proxy request that is rejected by the URL check or whose fetch fails
\* has not been taken as a heartbeat of the device: updateHeartbeat has not
\* refreshed, reset or restored a health record for it.
C26_OnlySuccessIsHeartbeat ==
    [][ProxyRequestFails => ~proxyCall'.heartbeat]_vars

\* ---- C27 ----
\* the invocations of attemptStreamRecovery for the map's record that are at
\* the step pc
LiveAt(pc, running) ==
    CopiesOf({r \in BagToSet(running) : r.live /\ r.pc = pc}, running)

\* a recovery attempt is counted for the device
AttemptCounted ==
    /\ streamRecovery # NoEntry
    /\ streamRecovery' # NoEntry
    /\ streamRecovery'.recoveryAttempts = streamRecovery.recoveryAttempts + 1

\* status is broadcast for the record of the map
Broadcasts(status) == broadcasts'[status] > broadcasts[status]

\* the steps in order, each seen where an invocation enters it: the wait
\* follows the stop callback and lasts SETTLE_DELAY, the reload follows the
\* wait, an outcome follows the reload
StepsInOrder ==
    /\ LiveAt("settle", recoveries') > LiveAt("settle", recoveries) =>
        /\ LiveAt("stop", recoveries') = LiveAt("stop", recoveries) - 1
        /\ \E r \in BagToSet(recoveries') :
            /\ r.pc = "settle"
            /\ r.due = now + 2000
            /\ CopiesIn(r, recoveries') > CopiesIn(r, recoveries)
    /\ LiveAt("load", recoveries') > LiveAt("load", recoveries) =>
        /\ LiveAt("settle", recoveries') = LiveAt("settle", recoveries) - 1
        /\ \E r \in BagToSet(recoveries) :
            /\ r.pc = "settle"
            /\ r.due <= now
            /\ CopiesIn(r, recoveries') < CopiesIn(r, recoveries)
    /\ (Broadcasts("success") \/ Broadcasts("failed")) =>
        /\ LiveAt("load", recoveries') = LiveAt("load", recoveries) - 1
        /\ broadcasts'.success + broadcasts'.failed
            = broadcasts.success + broadcasts.failed + 1

\* C27: every recovery attempt that is counted broadcasts "attempting" and
\* calls player.stop; the wait of 2 s follows the stop callback, the reload
\* the wait, and one of "success" and "failed" the reload; "giveup" is
\* broadcast only together with a "failed"; with "success" the stalled flag is
\* cleared and lastProxyRequest set to now, and the attempt count stays.
C27_RecoverySteps ==
    [][/\ AttemptCounted =>
            /\ broadcasts'.attempting = broadcasts.attempting + 1
            /\ LiveAt("stop", recoveries') = LiveAt("stop", recoveries) + 1
       /\ StepsInOrder
       /\ Broadcasts("giveup") => Broadcasts("failed")
       /\ Broadcasts("success") =>
            /\ ~streamRecovery'.stallDetected
            /\ streamRecovery'.lastProxyRequest = now
            /\ streamRecovery'.recoveryAttempts = streamRecovery.recoveryAttempts]_vars

\* ---- C28 ----
\* a status report has changed the tracker's record, or created it
ReportTracked ==
    /\ bufferHealthTracking' # NoEntry
    /\ bufferHealthTracking' # bufferHealthTracking

RequestArrives ==
    /\ manifestCall.pc # "fetching"
    /\ manifestCall'.pc \in {"fetching", "done"}
    /\ <<manifestCall, cacheHits>>' # <<manifestCall, cacheHits>>

\* the entry of the cache is one a lookup serves at the instant t
Fresh(entry, t) ==
    /\ entry # NoEntry
    /\ t - entry.timestamp < (IF entry.isLive THEN 4000 ELSE 60000)

\* C29: a request that finds a fresh entry is answered 200 with the stored
\* rewritten text and without a fetch, adds one to the device's cache hits and
\* leaves the entry as it is, timestamp included; a request that finds none
\* fresh counts no hit; and an entry is replaced by another only when a fetch
\* ends with the origin's text, the new entry stamped with that instant.
C29_HitLeavesEntry ==
    [][/\ (RequestArrives /\ Fresh(playlistCache, now)) =>
            /\ manifestCall'.pc = "done"
            /\ manifestCall'.fetches = 0
            /\ manifestCall'.status = 200
            /\ manifestCall'.body = playlistCache.content
            /\ cacheHits' = cacheHits + 1
            /\ playlistCache' = playlistCache
       /\ (RequestArrives /\ ~Fresh(playlistCache, now)) =>
            /\ manifestCall'.pc = "fetching"
            /\ manifestCall'.fetches = 1
            /\ cacheHits' = cacheHits
            /\ playlistCache' = playlistCache
       /\ (playlistCache' # playlistCache /\ playlistCache' # NoEntry) =>
            /\ manifestCall.pc = "fetching"
            /\ ~Fresh(playlistCache, manifestCall.at)
            /\ manifestCall'.pc = "done"
            /\ manifestCall'.upstream = 200
            /\ manifestCall'.status = 200
            /\ playlistCache'.timestamp = now
            /\ playlistCache'.content = manifestCall'.body
       /\ (manifestCall.pc = "fetching" /\ manifestCall'.pc = "done"
            /\ manifestCall'.upstream # 200) => playlistCache' = playlistCache]_vars

\* an entry has served two hits and is still stamped with the instant of its
\* fetch, a millisecond before it expires
C29_TwoHitsSameTimestamp ==
    /\ cacheHits = 2
    /\ ServedFromCache(manifestCall)
    /\ playlistCache # NoEntry
    /\ playlistCache.isLive
    /\ manifestCall.at = now
    /\ now - playlistCache.timestamp = CACHE_TTL_LIVE - 1

\* ---- C30 ----
\* the timer of the cache sweep fires while the cache has an entry
SweepRuns == nextSweep' # nextSweep /\ playlistCache # NoEntry

\* C30: a sweep removes the entry exactly when a lookup at that instant would
\* treat it as expired: now - timestamp not below 4000 ms for a live entry,
\* 60000 ms for a VOD entry; an entry a lookup would serve is kept as it is.
C30_SweepAgreesWithLookup ==
    [][SweepRuns =>
        /\ (playlistCache' = NoEntry) <=> ~Fresh(playlistCache, now)
        /\ Fresh(playlistCache, now) => playlistCache' = playlistCache]_vars

\* ---- C31 ----
\* C31: while the stalled flag of the device's recovery record is set, the
\* last proxy activity recorded in it is more than 15 s old.
C31_StalledMeansQuiet ==
    (streamRecovery # NoEntry /\ streamRecovery.stallDetected)
        => now - streamRecovery.lastProxyRequest > 15000

\* the flag is set again after a successful reload cleared it and recorded
\* the activity
C31_StalledAgain ==
    /\ streamRecovery # NoEntry
    /\ streamRecovery.stallDetected
    /\ streamRecovery.recoveryAttempts = 2
    /\ broadcasts.success = 1
    /\ broadcasts.failed = 0

\* ---- C32 ----
\* the session of the device has been torn down by the stop callback or by the
\* player's close: no record of the device is left
TornDown ==
    /\ ~activeSessions
    /\ streamRecovery = NoEntry
    /\ bufferHealthTracking = NoEntry

\* an invocation of attemptStreamRecovery issues its player.load
ReloadIssued ==
    \E r \in BagToSet(recoveries') :
        r.pc = "load" /\ CopiesIn(r, recoveries') > CopiesIn(r, recoveries)

\* C32: once the session of the device has been torn down, no recovery that
\* was in its stop or settle phase issues the reload.
C32_NoReloadAfterTeardown ==
    [][TornDown => ~ReloadIssued]_vars

\* ---- C33 ----
\* an event of a session that is no longer the device's: a cast client that no
\* map refers to changes (its player closes, it fails, its stop callback
\* closes it)
OldSessionEvent ==
    \E c \in BagToSet(clients) :
        c.role = "old" /\ CopiesIn(c, clients') < CopiesIn(c, clients)

\* C33: while a session is registered for the device, an event of an older
\* session (its player's close, its client's error, its stop callback) leaves
\* every record of the device as it is.
C33_OldEventsLeaveRecords ==
    [][(activeSessions /\ OldSessionEvent) => UNCHANGED deviceMaps]_vars

\* ---- C34 ----
\* a cast client that is connected and whose player has loaded and has not
\* been sent stop
Playing(c) == c.loaded /\ ~c.closed /\ c.stop = "none"

\* the last cast request in progress completes
CastRequestsComplete == pendingCast /\ ~pendingCast'

\* C34: once the cast requests in progress for the device have completed,
\* every cast client that is connected and playing is the one of the
\* SessionRecord.
C34_OnlySessionPlays ==
    [][CastRequestsComplete =>
        \A c \in BagToSet(clients') : Playing(c) => c.role = "session"]_vars

\* ---- C35 ----
\* C35: the manifest text a request is answered with is the origin's text
\* rewritten with that request's own referer, whether it was fetched or served
\* from the cache.
C35_OwnRefererInResponse ==
    (manifestCall.pc = "done" /\ manifestCall.status = 200) =>
        \E text \in OriginTexts :
            manifestCall.body = rewrittenM3u8(text, manifestCall.referer)

\* ---- C36 ----
\* C36: a request for a segment-shaped URL that has been answered was answered
\* 200: with the body of a successful GET at the origin, or with the empty
\* body of the soft skip after failed attempts; no 4xx or 5xx status reaches
\* the client.
C36_SegmentNeverFails ==
    (segmentCall.shape = "segment" /\ segmentCall.pc = "done") =>
        /\ segmentCall.status = 200
        /\ \/ segmentCall.body.kind = "content" /\ segmentCall.last = 200
           \/ /\ segmentCall.body.kind = "empty"
              /\ segmentCall.last \in Outcomes \ {200}
              /\ segmentCall.gets <= maxRetries("segment")

\* the origin answered at once each time and the last of the failures was a
\* transport error: the request was given up at attempt 7, by the delays alone
C36_GivenUpByDelaysAlone ==
    /\ segmentCall.shape = "segment"
    /\ segmentCall.pc = "done"
    /\ segmentCall.body.kind = "empty"
    /\ segmentCall.last = 0
    /\ segmentCall.attempt = 7
    /\ segmentCall.elapsedTime = 4025

\* ---- C37 ----
\* the device has a session and a recovery record and its tracker is in the
\* buffering or the idle branch of the poll tick
StaysStalled ==
    /\ activeSessions
    /\ streamRecovery # NoEntry
    /\ BufferingBranch(bufferHealthTracking) \/ IdleBranch(bufferHealthTracking)

\* a proxy request of the device, or a reload that succeeds
ActivityOrSuccess ==
    \/ ProxyRequest
    \/ \E r \in BagToSet(recoveries) : ReloadSucceeded(r)

\* the orchestrator still has something ahead for the device: a recovery is in
\* progress, or a poll tick may still start one
RetryAhead ==
    /\ streamRecovery # NoEntry
    /\ \/ LiveRecoveries # {}
       \/ MayRecover(streamRecovery)

GaveUp == broadcasts.giveup > 0

\* C37: under fair scheduling of the timers, a device that from some moment
\* on stays stalled with its session, makes no proxy request and has no reload
\* succeed, ends with "giveup" broadcast; until then a recovery is in progress
\* or a later poll tick may start one.  (Stated so that a behaviour cut short
\* by the end of the clock satisfies it: the device is then still on its way.)
C37_StalledEndsInGiveup ==
    (<>[]StaysStalled /\ <>[][~ActivityOrSuccess]_vars) => <>[](GaveUp \/ RetryAhead)

\* ---- C38 ----
\* C38: the reconnect-attempt count of the device's health record is at most 3.
C38_ReconnectAttemptsBounded ==
    connectionHealth # NoEntry => connectionHealth.reconnectAttempts <= 3

\* a reconnect timer scheduled before the last heartbeat has fired against the
\* record the heartbeat restored: the device is reconnecting although its
\* last heartbeat is younger than the unhealthy threshold
C38_StaleTimerCounted ==
    /\ activeSessions
    /\ connectionHealth # NoEntry
    /\ connectionHealth.connectionState = "reconnecting"
    /\ connectionHealth.reconnectAttempts = 1
    /\ now - connectionHealth.lastHeartbeat < MAX_MISSED_HEARTBEATS * HEARTBEAT_INTERVAL

\* C39: in every buffer-health record the buffering start marker
\* (lastBufferStart) is set if and only if playback has started (hasPlayed) and
\* the last observed state is BUFFERING.
C39_MarkerIffBufferingAfterPlay ==
    bufferHealthTracking # NoEntry =>
        ((bufferHealthTracking.lastBufferStart # NULL)
            <=> (bufferHealthTracking.hasPlayed
                    /\ bufferHealthTracking.lastState = "BUFFERING"))

\* a second buffering interval is open: the marker was cleared and set again
C39_MarkerSetAgain ==
    /\ bufferHealthTracking # NoEntry
    /\ bufferHealthTracking.hasPlayed
    /\ bufferHealthTracking.lastState = "BUFFERING"
    /\ bufferHealthTracking.lastBufferStart # NULL
    /\ bufferHealthTracking.bufferingEvents = 2
    /\ now > bufferHealthTracking.lastBufferStart

\* ---- C40 ----
\* a HEAD of tryNextSegment is under way or was made for the request
Probed == segmentCall.pc = "probe" \/ segmentCall.probes > 0

\* no probe is made for a URL without a segment number before its extension
C40_NoProbeWithoutIndex == Probed => SegmentNumberMatch(segmentCall.url)

\* the URL under probe differs from the current URL in the index alone
C40_OnlyIndexIncremented ==
    segmentCall.pc = "probe" =>
        /\ nextUrl(segmentCall.currentUrl).hostNumber = segmentCall.currentUrl.hostNumber
        /\ nextUrl(segmentCall.currentUrl).ext = segmentCall.currentUrl.ext
        /\ nextUrl(segmentCall.currentUrl).index
                = {n + 1 : n \in segmentCall.currentUrl.index}

\* C40: for a URL ending in a numeric index followed by .ts, .m4s or .mp4 the
\* URL probed by the skip-ahead is the current URL with only that trailing
\* index incremented by one, host and path prefix unchanged; for a URL without
\* such an index no probe is made.
C40_ProbeUrlIsNextIndex == C40_NoProbeWithoutIndex /\ C40_OnlyIndexIncremented

====
